---- MODULE Spec2Model ----
(***************************************************************************)
(* A model of the PartSelect scraping core: the SQLite store               *)
(* (scraping/database.py, scraping/database_utils.py), the record shapes   *)
(* (scraping/itemclasses.py) and the lazy, write-through PartScraper and   *)
(* ModelScraper (scraping/PartScraper.py, scraping/ModelScraper.py), the   *)
(* browser session of scraping/AbstractScraper.py, the category            *)
(* pagination and the process-pool batch of                                *)
(* scraping/scrape_all/scrape_cats.py, the scrapy spiders with their       *)
(* pipeline, failed_urls ledger and user-agent middleware                  *)
(* (scraping/scrape_all/scrapy), the catalog tools of agents/my_tools.py   *)
(* and the context summarizers of agents/main_agent.py.                    *)
(*                                                                         *)
(* Values.  A Python/SQL value is a tagged record: Null (None / NULL),     *)
(* TextV(s) with s a sequence of one-character strings, IntV(n), and       *)
(* RealV(n) with n the number in hundredths.  Python's True/False are      *)
(* IntV(1)/IntV(0), which is also what SQLite hands back for them.         *)
(***************************************************************************)
EXTENDS Integers, Sequences, FiniteSets, TLC

-----------------------------------------------------------------------------
(* Values and the Python notions of "is None" and "not x".                 *)

Null == [k |-> "null"]
TextV(s) == [k |-> "text", v |-> s]
IntV(n) == [k |-> "int", v |-> n]
RealV(n) == [k |-> "real", v |-> n]

IsNull(x) == x.k = "null"

\* Python truthiness: `not x` for None, "", 0, 0.0 and False.
Falsy(x) ==
    \/ x.k = "null"
    \/ (x.k = "text" /\ x.v = <<>>)
    \/ (x.k = "int" /\ x.v = 0)
    \/ (x.k = "real" /\ x.v = 0)

\* str.lstrip(ch), str.rstrip(ch), and str.strip() for blanks.
RECURSIVE LStrip(_, _)
LStrip(s, ch) == IF s # <<>> /\ Head(s) = ch THEN LStrip(Tail(s), ch) ELSE s

RECURSIVE RStrip(_, _)
RStrip(s, ch) ==
    IF s # <<>> /\ s[Len(s)] = ch THEN RStrip(SubSeq(s, 1, Len(s) - 1), ch) ELSE s

Strip(s) == RStrip(LStrip(s, " "), " ")

-----------------------------------------------------------------------------
(* itemclasses.py: the column lists, in dataclass order.                   *)

PartCols ==
    << "manufacturer_id", "part_select_id", "name", "url", "availability",
       "price", "difficulty", "time", "rating", "description", "fixes",
       "part_replacements", "products", "related_parts" >>

ModelCols == << "id", "name", "description", "parts", "symptoms" >>

ReplacementCols == << "replacement_id", "manufacturer_id", "replacement_text" >>

ReviewCols == << "review_id", "manufacturer_id", "header", "text" >>

StoryCols == << "story_id", "manufacturer_id", "title", "text" >>

QnACols == << "qna_id", "manufacturer_id", "question", "model_number", "answer" >>

ColSet(cols) == { cols[j] : j \in 1..Len(cols) }

\* A dataclass instance with every field None.
Blank(cols) == [c \in ColSet(cols) |-> Null]

\* PartItem(...): every field defaults to None, availability to True.
PartItem(mid, url) ==
    [Blank(PartCols) EXCEPT !["manufacturer_id"] = mid,
                            !["url"] = url,
                            !["availability"] = IntV(1)]

\* ModelItem(id=...)
ModelItem(id) == [Blank(ModelCols) EXCEPT !["id"] = id]

PartReplacementItem(rid, mid, text) ==
    [replacement_id |-> rid, manufacturer_id |-> mid, replacement_text |-> text]

PartReviewItem(rid, mid, header, text) ==
    [review_id |-> rid, manufacturer_id |-> mid, header |-> header, text |-> text]

-----------------------------------------------------------------------------
(* database_utils.py / database.py: tables are sequences of rows in        *)
(* insertion order; a row is a function from column names to values.       *)

\* Mutant of Coalesce: the incoming value always wins (INSERT OR REPLACE).
CoalesceReplace(incoming, existing) == incoming

\* COALESCE(excluded.c, table.c)
Coalesce(incoming, existing) == IF IsNull(incoming) THEN existing ELSE incoming

\* Mutant of MergeRow: the stored row is replaced by the incoming one
\* (INSERT OR REPLACE).
MergeRowReplace(cols, incoming, existing) == [c \in ColSet(cols) |-> incoming[c]]

\* The DO UPDATE SET clause of generate_upsert_sql: every column, the key
\* included, becomes COALESCE(excluded.c, table.c).
MergeRow(cols, incoming, existing) ==
    [c \in ColSet(cols) |-> Coalesce(incoming[c], existing[c])]

\* Mutant of Matches: no conflict is ever detected (a table without its key).
MatchesNone(table, pk, key) == {}

\* Positions of the rows whose primary key equals the (non-NULL) key given.
Matches(table, pk, key) ==
    { j \in 1..Len(table) : ~IsNull(table[j][pk]) /\ table[j][pk] = key }

\* The largest integer key of a table, 0 when it has none.
MaxKey(table, pk) ==
    LET ks == { table[j][pk].v : j \in 1..Len(table) } \cup {0}
    IN  CHOOSE m \in ks : \A n \in ks : n <= m

\* INSERT ... ON CONFLICT(pk) DO UPDATE SET ... on one row.  A NULL key never
\* conflicts: an INTEGER PRIMARY KEY AUTOINCREMENT column is given the next
\* integer, a TEXT PRIMARY KEY column keeps NULL (SQLite allows it), and in
\* both cases a new row is inserted.
Upsert(table, cols, pk, autoinc, row) ==
    IF IsNull(row[pk])
    THEN IF autoinc
         THEN Append(table, [c \in ColSet(cols) |->
                                IF c = pk THEN IntV(MaxKey(table, pk) + 1) ELSE row[c]])
         ELSE Append(table, [c \in ColSet(cols) |-> row[c]])
    ELSE LET hit == Matches(table, pk, row[pk])
         IN  IF hit = {}
             THEN Append(table, [c \in ColSet(cols) |-> row[c]])
             ELSE [j \in 1..Len(table) |->
                      IF j \in hit THEN MergeRow(cols, row, table[j]) ELSE table[j]]

\* SELECT ... WHERE pk = ? ; fetchone().  `= NULL` matches no row.
Fetch(table, pk, key) ==
    IF IsNull(key) \/ Matches(table, pk, key) = {}
    THEN Null
    ELSE table[CHOOSE j \in Matches(table, pk, key) :
                   \A h \in Matches(table, pk, key) : j <= h]

\* SELECT ... WHERE col = ? ; fetchall().
RECURSIVE FetchAll(_, _, _)
FetchAll(table, col, key) ==
    IF table = <<>> \/ IsNull(key) THEN <<>>
    ELSE IF ~IsNull(Head(table)[col]) /\ Head(table)[col] = key
         THEN <<Head(table)>> \o FetchAll(Tail(table), col, key)
         ELSE FetchAll(Tail(table), col, key)

\* DatabaseHandler.save_part / get_part
save_part(parts_t, item) == Upsert(parts_t, PartCols, "manufacturer_id", FALSE, item)
get_part(parts_t, mid) == Fetch(parts_t, "manufacturer_id", mid)

\* DatabaseHandler.save_model / get_model
save_model(models_t, item) == Upsert(models_t, ModelCols, "id", FALSE, item)
get_model(models_t, id) == Fetch(models_t, "id", id)

\* DatabaseHandler.save_part_replacement, and save_part_replacements over a list
save_part_replacement(t, rep) == Upsert(t, ReplacementCols, "replacement_id", TRUE, rep)

RECURSIVE save_part_replacements(_, _)
save_part_replacements(t, reps) ==
    IF reps = <<>> THEN t
    ELSE save_part_replacements(save_part_replacement(t, Head(reps)), Tail(reps))

\* DatabaseHandler.save_part_review, and save_part_reviews over a list
save_part_review(t, r) == Upsert(t, ReviewCols, "review_id", TRUE, r)

RECURSIVE save_part_reviews(_, _)
save_part_reviews(t, rs) ==
    IF rs = <<>> THEN t
    ELSE save_part_reviews(save_part_review(t, Head(rs)), Tail(rs))

get_part_reviews(t, mid) == FetchAll(t, "manufacturer_id", mid)

\* DatabaseHandler.save_part_review_story, and save_part_review_stories
save_part_review_story(t, st) == Upsert(t, StoryCols, "story_id", TRUE, st)

RECURSIVE save_part_review_stories(_, _)
save_part_review_stories(t, sts) ==
    IF sts = <<>> THEN t
    ELSE save_part_review_stories(save_part_review_story(t, Head(sts)), Tail(sts))

get_part_review_stories(t, mid) == FetchAll(t, "manufacturer_id", mid)

\* DatabaseHandler.save_part_qnas: the upsert statement run once per row
RECURSIVE save_part_qnas(_, _)
save_part_qnas(t, qs) ==
    IF qs = <<>> THEN t
    ELSE save_part_qnas(Upsert(t, QnACols, "qna_id", TRUE, Head(qs)), Tail(qs))

get_part_qnas(t, mid) == FetchAll(t, "manufacturer_id", mid)

-----------------------------------------------------------------------------
(* State.                                                                  *)

VARIABLES
    parts,              \* table parts (PartItem rows)
    models,             \* table models (ModelItem rows)
    part_replacements,  \* table part_replacements
    part_reviews,       \* table part_reviews
    part_review_stories,\* table part_review_stories
    part_qna,           \* table part_qna
    scr,                \* the PartScraper instances, one per worker
    lastOp,             \* the operation that produced this state, and its inputs
    nops                \* number of operations performed so far

tables == << parts, models, part_replacements, part_reviews, part_review_stories, part_qna >>
vars == << parts, models, part_replacements, part_reviews, part_review_stories, part_qna,
          scr, lastOp, nops >>

-----------------------------------------------------------------------------
(* Bounds and the small sets the inputs are drawn from.                    *)

\* Saves applied to the store in one behaviour of SpecStore.
MaxSaves == 3

MfrIds == { TextV(<<"m", "1">>), TextV(<<"m", "2">>) }

PartInputs ==
    { [Blank(PartCols) EXCEPT !["manufacturer_id"] = m, !["name"] = n, !["price"] = p] :
        m \in MfrIds \cup {Null},
        n \in { Null, TextV(<<"W">>), TextV(<<"X">>) },
        p \in { Null, RealV(1999) } }

ModelInputs ==
    { [Blank(ModelCols) EXCEPT !["id"] = TextV(<<"D", "1">>), !["name"] = n, !["symptoms"] = y] :
        n \in { Null, TextV(<<"W">>) },
        y \in { Null, TextV(<<"y">>) } }

ReplacementInputs ==
    { PartReplacementItem(r, TextV(<<"m", "1">>), t) :
        r \in { Null, IntV(1) },
        t \in { Null, TextV(<<"A">>) } }

ReviewInputs ==
    { PartReviewItem(r, TextV(<<"M", "1">>), h, TextV(<<"t">>)) :
        r \in { IntV(3), IntV(4) },
        h \in { Null, TextV(<<"h">>) } }

StoryInputs ==
    { [Blank(StoryCols) EXCEPT !["story_id"] = IntV(5),
                               !["manufacturer_id"] = TextV(<<"m", "1">>), !["title"] = h] :
        h \in { Null, TextV(<<"h">>) } }

QnAInputs ==
    { [Blank(QnACols) EXCEPT !["qna_id"] = IntV(6),
                             !["manufacturer_id"] = TextV(<<"M", "1">>), !["answer"] = a] :
        a \in { Null, TextV(<<"a">>) } }

-----------------------------------------------------------------------------
(* The store on its own: any sequence of saves, on any table.              *)

NoScrapers == [w \in {} |-> Null]

InitStore ==
    /\ parts = <<>>
    /\ models = <<>>
    /\ part_replacements = <<>>
    /\ part_reviews = <<>>
    /\ part_review_stories = <<>>
    /\ part_qna = <<>>
    /\ scr = NoScrapers
    /\ lastOp = [op |-> "init"]
    /\ nops = 0

\* What lastOp records for a save: the table, the row handed in, and whether
\* the save before it was the same save of the same row.
SaveOp(name, row) ==
    [op |-> name, arg |-> row, again |-> (lastOp.op = name /\ lastOp.arg = row)]

SavePart ==
    \E item \in PartInputs :
        /\ nops < MaxSaves
        /\ parts' = save_part(parts, item)
        /\ lastOp' = SaveOp("save_part", item)
        /\ nops' = nops + 1
        /\ UNCHANGED << models, part_replacements, part_reviews, part_review_stories, part_qna, scr >>

SaveModel ==
    \E item \in ModelInputs :
        /\ nops < MaxSaves
        /\ models' = save_model(models, item)
        /\ lastOp' = SaveOp("save_model", item)
        /\ nops' = nops + 1
        /\ UNCHANGED << parts, part_replacements, part_reviews, part_review_stories, part_qna, scr >>

SavePartReplacement ==
    \E rep \in ReplacementInputs :
        /\ nops < MaxSaves
        /\ part_replacements' = save_part_replacement(part_replacements, rep)
        /\ lastOp' = SaveOp("save_part_replacement", rep)
        /\ nops' = nops + 1
        /\ UNCHANGED << parts, models, part_reviews, part_review_stories, part_qna, scr >>

SavePartReview ==
    \E r \in ReviewInputs :
        /\ nops < MaxSaves
        /\ part_reviews' = save_part_review(part_reviews, r)
        /\ lastOp' = SaveOp("save_part_review", r)
        /\ nops' = nops + 1
        /\ UNCHANGED << parts, models, part_replacements, part_review_stories, part_qna, scr >>

SavePartReviewStory ==
    \E st \in StoryInputs :
        /\ nops < MaxSaves
        /\ part_review_stories' = save_part_review_story(part_review_stories, st)
        /\ lastOp' = SaveOp("save_part_review_story", st)
        /\ nops' = nops + 1
        /\ UNCHANGED << parts, models, part_replacements, part_reviews, part_qna, scr >>

\* save_part_qnas with a list of one row (an empty list returns at once).
SavePartQnas ==
    \E q \in QnAInputs :
        /\ nops < MaxSaves
        /\ part_qna' = save_part_qnas(part_qna, << q >>)
        /\ lastOp' = SaveOp("save_part_qnas", q)
        /\ nops' = nops + 1
        /\ UNCHANGED << parts, models, part_replacements, part_reviews,
                        part_review_stories, scr >>

NextStore ==
    \/ SavePart
    \/ SaveModel
    \/ SavePartReplacement
    \/ SavePartReview
    \/ SavePartReviewStory
    \/ SavePartQnas

SpecStore == InitStore /\ [][NextStore]_vars

-----------------------------------------------------------------------------
(* Properties of the store.                                                *)

\* The rows of `new` that were rows of `old` (same positions) relate to them as
\* an upsert of `arg` on key `pk` must: a row with arg's key takes, column by
\* column, arg's value where that is non-NULL and keeps its own otherwise;
\* every other row is as it was.
MergedNoClobber(old, new, cols, pk, arg) ==
    /\ Len(new) >= Len(old)
    /\ \A j \in 1..Len(old) :
          IF ~IsNull(arg[pk]) /\ old[j][pk] = arg[pk]
          THEN \A c \in ColSet(cols) :
                  /\ new[j][c] = (IF IsNull(arg[c]) THEN old[j][c] ELSE arg[c])
                  /\ (~IsNull(old[j][c]) => ~IsNull(new[j][c]))
          ELSE new[j] = old[j]

\* C1 (merge-no-clobber): on every table, every upsert leaves each column of
\* the row with the incoming key equal to the incoming value when that is
\* non-NULL and to the stored value otherwise, so no stored non-NULL value is
\* ever replaced by NULL; the other rows are untouched.
C1_MergeNoClobber ==
    [][ /\ lastOp'.op = "save_part" =>
             MergedNoClobber(parts, parts', PartCols, "manufacturer_id", lastOp'.arg)
        /\ lastOp'.op = "save_model" =>
             MergedNoClobber(models, models', ModelCols, "id", lastOp'.arg)
        /\ lastOp'.op = "save_part_replacement" =>
             MergedNoClobber(part_replacements, part_replacements', ReplacementCols,
                             "replacement_id", lastOp'.arg)
        /\ lastOp'.op = "save_part_review" =>
             MergedNoClobber(part_reviews, part_reviews', ReviewCols,
                             "review_id", lastOp'.arg)
        /\ lastOp'.op = "save_part_review_story" =>
             MergedNoClobber(part_review_stories, part_review_stories', StoryCols,
                             "story_id", lastOp'.arg)
        /\ lastOp'.op = "save_part_qnas" =>
             MergedNoClobber(part_qna, part_qna', QnACols, "qna_id", lastOp'.arg)
      ]_vars

\* C1 witness: the spec's example.  A stored part with a price and no name has
\* just been upserted with a record carrying a name and no price, and holds both.
C1_Witness ==
    /\ lastOp.op = "save_part"
    /\ IsNull(lastOp.arg["price"])
    /\ lastOp.arg["name"] = TextV(<<"W">>)
    /\ \E j \in 1..Len(parts) :
          /\ parts[j]["manufacturer_id"] = lastOp.arg["manufacturer_id"]
          /\ parts[j]["price"] = RealV(1999)
          /\ parts[j]["name"] = TextV(<<"W">>)

-----------------------------------------------------------------------------
(* The part's page, as the site serves it.  A page is a record of the      *)
(* elements the selectors of PartScraper look for; Null is an element that *)
(* is not there (the wait times out and get_item returns None).  Texts are *)
(* the elements' raw texts; an element with structure is a record tagged   *)
(* k = "el".                                                               *)

Unset == [k |-> "unset"]    \* an attribute the instance does not have

Digits == << "0", "1", "2", "3", "4", "5", "6", "7", "8", "9" >>
IsDigit(ch) == \E d \in 1..10 : Digits[d] = ch
DigitVal(ch) == (CHOOSE d \in 1..10 : Digits[d] = ch) - 1

\* s.replace(ch, "")
RECURSIVE Remove(_, _)
Remove(s, ch) ==
    IF s = <<>> THEN <<>>
    ELSE IF Head(s) = ch THEN Remove(Tail(s), ch)
         ELSE <<Head(s)>> \o Remove(Tail(s), ch)

RECURSIVE DecimalValue(_)
DecimalValue(s) ==
    IF s = <<>> THEN 0 ELSE 10 * DecimalValue(SubSeq(s, 1, Len(s) - 1)) + DigitVal(s[Len(s)])

\* float(s) for the texts the pages carry: a non-empty run of digits is a
\* number, anything else raises ValueError.
FloatOk(s) == Strip(s) # <<>> /\ \A j \in 1..Len(Strip(s)) : IsDigit(Strip(s)[j])
Float(s) == DecimalValue(Strip(s))

\* sep.join(list)
RECURSIVE Join(_, _)
Join(sep, list) ==
    IF list = <<>> THEN <<>>
    ELSE IF Len(list) = 1 THEN list[1]
         ELSE list[1] \o sep \o Join(sep, Tail(list))

\* s.split(ch)
RECURSIVE Split(_, _)
Split(s, ch) ==
    IF \A j \in 1..Len(s) : s[j] # ch THEN << s >>
    ELSE LET cut == CHOOSE j \in 1..Len(s) : s[j] = ch /\ \A h \in 1..(j - 1) : s[h] # ch
         IN  << SubSeq(s, 1, cut - 1) >> \o Split(SubSeq(s, cut + 1, Len(s)), ch)

PART_SEARCH(mid) == TextV(<<"S", "=">> \o mid.v)

base_url == <<"B", "/">>

InStock == <<"I", "n">>

\* get_item(css, url, parser) with the parser el.text.strip()
StrippedText(el) == IF IsNull(el) THEN Null ELSE TextV(Strip(el.v))

_scrape_name(pg) == StrippedText(pg.title)

_scrape_description(pg) == StrippedText(pg.descr)

\* _scrape_part_select_id: the page's productID unless the record has one.
_scrape_part_select_id(item, pg) ==
    IF Falsy(item["part_select_id"]) THEN StrippedText(pg.productID)
    ELSE item["part_select_id"]

\* _scrape_price: [raised, val]; float() of a text that is no number raises.
_scrape_price(pg) ==
    IF IsNull(pg.price) THEN [raised |-> FALSE, val |-> Null]
    ELSE LET txt == Strip(Remove(pg.price.v, "$"))
         IN  IF FloatOk(txt) THEN [raised |-> FALSE, val |-> RealV(100 * Float(txt))]
             ELSE [raised |-> TRUE, val |-> Null]

\* get_items("...p.bold"): the stripped texts of the repair-rating items.
RepairItems(pg) == [j \in 1..Len(pg.repair) |-> TextV(Strip(pg.repair[j].v))]

_scrape_difficulty(pg) == IF RepairItems(pg) # <<>> THEN RepairItems(pg)[1] ELSE Null

_scrape_time(pg) == IF Len(RepairItems(pg)) > 1 THEN RepairItems(pg)[2] ELSE Null

\* _scrape_rating: no element or no width in its style gives None; otherwise
\* round(pct / 20, 2), which in hundredths is 5 * pct.
_scrape_rating(pg) ==
    IF IsNull(pg.rating) \/ IsNull(pg.rating.width) THEN [raised |-> FALSE, val |-> Null]
    ELSE LET txt == Strip(Remove(Remove(pg.rating.width.v, "%"), ";"))
         IN  IF FloatOk(txt) THEN [raised |-> FALSE, val |-> RealV(5 * Float(txt))]
             ELSE [raised |-> TRUE, val |-> Null]

\* _scrape_related_parts: "" without blocks, else the numbered lines
\* "i. name - (base_url/href)" joined by newlines.
RelatedLine(j, block) ==
    <<Digits[j + 1], ".", " ">> \o Strip(block.name) \o <<" ", "-", " ", "(">>
        \o RStrip(base_url, "/") \o <<"/">> \o LStrip(block.href, "/") \o <<")">>

_scrape_related_parts(pg) ==
    TextV(Join(<<"\n">>, [j \in 1..Len(pg.related) |-> RelatedLine(j, pg.related[j])]))

\* _parse_troubleshooting_text on the section: the lists behind its three
\* markers; a section that is not there (raw text "") has none of them.
_parse_troubleshooting_text(section) ==
    IF IsNull(section)
    THEN [symptoms |-> <<>>, products |-> <<>>, replaced_parts |-> <<>>]
    ELSE [symptoms |-> section.symptoms, products |-> section.products,
          replaced_parts |-> section.replaced_parts]

\* _scrape_troubleshooting: click_all on "Show more" may raise; otherwise the
\* three lists joined with ", " (or "").
_scrape_troubleshooting(pg) ==
    IF pg.clickRaises THEN [raised |-> TRUE, f |-> Null, r |-> Null, p |-> Null]
    ELSE LET data == _parse_troubleshooting_text(pg.trouble)
         IN  [raised |-> FALSE,
              f |-> TextV(Join(<<",", " ">>, data.symptoms)),
              r |-> TextV(Join(<<",", " ">>, data.replaced_parts)),
              p |-> TextV(Join(<<",", " ">>, data.products))]

\* _scrape_availability
_scrape_availability(item, pg) ==
    IF Falsy(item["part_select_id"])
    THEN IntV(IF StrippedText(pg.avail) = TextV(InStock) THEN 1 ELSE 0)
    ELSE item["availability"]

-----------------------------------------------------------------------------
(* Reviews, repair stories and questions: the paginated sections of a      *)
(* part's page.  A section is served as a sequence of pages; a page is its *)
(* container with its list of blocks, or Null when no container is there.  *)

Lowers == << "m", "h", "t", "u", "q", "a", "d" >>
Uppers == << "M", "H", "T", "U", "Q", "A", "D" >>
Alphabet == Lowers \o Uppers \o << "1", " " >>

\* str.upper()
upper(s) ==
    [j \in 1..Len(s) |->
        IF \E n \in 1..Len(Lowers) : Lowers[n] = s[j]
        THEN Uppers[CHOOSE n \in 1..Len(Lowers) : Lowers[n] = s[j]]
        ELSE s[j]]

Code(ch) == CHOOSE n \in 1..Len(Alphabet) : Alphabet[n] = ch

\* int(hashlib.md5(s.encode()).hexdigest(), 16): a number that the string
\* determines, unequal for unequal strings of the lengths that occur here.
RECURSIVE md5(_)
md5(s) == IF s = <<>> THEN 0 ELSE Code(Head(s)) + (Len(Alphabet) + 1) * md5(Tail(s))

\* The ids are the digest modulo 10 ** 8.
IdModulus == 100000000

\* element.get_text(strip=True) if element else ""
TextOrEmpty(el) == IF IsNull(el) THEN <<>> ELSE Strip(el.v)

\* The ids that leave no row behind when None (mutation of the id below).
NoId(unique_str) == Null

\* The 8-digit id of a review, story or question from its unique string.
HashId(unique_str) == IntV(md5(unique_str) % IdModulus)

\* _parse_current_page_reviews over the blocks of the current page
RECURSIVE ParseReviewBlocks(_, _)
ParseReviewBlocks(mid, blocks) ==
    IF blocks = <<>> THEN [raised |-> FALSE, items |-> <<>>, combined |-> <<>>]
    ELSE IF IsNull(mid) THEN [raised |-> TRUE, items |-> <<>>, combined |-> <<>>]
    ELSE LET header == TextOrEmpty(Head(blocks).header)
             text == TextOrEmpty(Head(blocks).text)
             item == PartReviewItem(HashId(upper(mid.v) \o header \o text),
                                    TextV(upper(mid.v)), TextV(header), TextV(text))
             rest == ParseReviewBlocks(mid, Tail(blocks))
         IN  [raised |-> FALSE, items |-> << item >> \o rest.items,
              combined |-> header \o << " " >> \o text \o << " " >> \o rest.combined]

\* _parse_current_page_reviews: no container is None.select, an exception.
_parse_current_page_reviews(mid, container) ==
    IF IsNull(container) THEN [raised |-> TRUE, items |-> <<>>, combined |-> <<>>]
    ELSE [ParseReviewBlocks(mid, container.blocks) EXCEPT !.combined = Strip(@)]

\* _parse_current_page_stories over the blocks of the current page
RECURSIVE ParseStoryBlocks(_, _)
ParseStoryBlocks(mid, blocks) ==
    IF blocks = <<>> THEN [raised |-> FALSE, items |-> <<>>, combined |-> <<>>]
    ELSE IF IsNull(mid) THEN [raised |-> TRUE, items |-> <<>>, combined |-> <<>>]
    ELSE LET title_str == TextOrEmpty(Head(blocks).header)
             text_str == TextOrEmpty(Head(blocks).text)
             item == [c \in ColSet(StoryCols) |->
                        CASE c = "story_id" -> HashId(upper(mid.v) \o title_str \o text_str)
                          [] c = "manufacturer_id" -> mid
                          [] c = "title" -> TextV(title_str)
                          [] c = "text" -> TextV(text_str)]
             rest == ParseStoryBlocks(mid, Tail(blocks))
         IN  [raised |-> FALSE, items |-> << item >> \o rest.items,
              combined |-> title_str \o << " " >> \o text_str \o << " " >> \o rest.combined]

\* _parse_current_page_stories
_parse_current_page_stories(mid, container) ==
    IF IsNull(container) THEN [raised |-> TRUE, items |-> <<>>, combined |-> <<>>]
    ELSE [ParseStoryBlocks(mid, container.blocks) EXCEPT !.combined = Strip(@)]

\* _parse_qna_page over the blocks of the current page.  A block carries its
\* question (header), its answer (text) and, in `model`, the number that
\* follows "For model number " (Null: no such line).  A block whose parsing
\* raises is logged and skipped.
RECURSIVE ParseQnABlocks(_, _)
ParseQnABlocks(mid, blocks) ==
    IF blocks = <<>> THEN [raised |-> FALSE, items |-> <<>>, combined |-> <<>>]
    ELSE LET question_text == TextOrEmpty(Head(blocks).header)
             model_number == TextOrEmpty(Head(blocks).model)
             answer == TextOrEmpty(Head(blocks).text)
             item == [c \in ColSet(QnACols) |->
                        CASE c = "qna_id" ->
                               HashId(upper(mid.v) \o question_text \o model_number \o answer)
                          [] c = "manufacturer_id" -> TextV(upper(mid.v))
                          [] c = "question" -> TextV(question_text)
                          [] c = "model_number" -> TextV(upper(model_number))
                          [] c = "answer" -> TextV(answer)]
             rest == ParseQnABlocks(mid, Tail(blocks))
         IN  IF IsNull(mid) THEN rest
             ELSE [raised |-> FALSE, items |-> << item >> \o rest.items,
                   combined |-> question_text \o << " " >> \o model_number \o << " " >>
                                  \o answer \o << " " >> \o rest.combined]

\* _parse_qna_page: no container is an empty page.
_parse_qna_page(mid, container) ==
    IF IsNull(container) THEN [raised |-> FALSE, items |-> <<>>, combined |-> <<>>]
    ELSE [ParseQnABlocks(mid, container.blocks) EXCEPT !.combined = Strip(@)]

\* The loop of _scrape_reviews, _scrape_stories and _scrape_questions over
\* the parsed pages: `collected` is a set that update() fills with the
\* characters of the page's combined string; a page whose combined string is
\* in it adds nothing and ends the loop; the click on "next" succeeds while
\* there is a next page.
RECURSIVE Paginate(_, _, _, _)
Paginate(parsed, i, collected, acc) ==
    LET pr == parsed[i]
        isin == Len(pr.combined) = 1 /\ pr.combined[1] \in collected
        new == IF isin THEN <<>> ELSE pr.items
        more == collected \cup { pr.combined[j] : j \in 1..Len(pr.combined) }
    IN  IF pr.raised THEN [raised |-> TRUE, items |-> acc, collected |-> collected]
        ELSE IF new = <<>> THEN [raised |-> FALSE, items |-> acc, collected |-> collected]
        ELSE IF i < Len(parsed) THEN Paginate(parsed, i + 1, more, acc \o new)
        ELSE [raised |-> FALSE, items |-> acc \o new, collected |-> more]

\* What a section scraper leaves: the rows it returns, and the table, saved
\* into when `collected` is not empty.
SectionResult(r, saved) ==
    [raised |-> r.raised, ret |-> r.items, saved |-> TRUE, table |-> saved]

SectionSaves(r) == ~r.raised /\ r.collected # {}

\* _scrape_reviews
ReviewsLoop(t, r) ==
    IF SectionSaves(r) THEN SectionResult(r, save_part_reviews(t, r.items))
    ELSE [SectionResult(r, t) EXCEPT !.saved = FALSE]

_scrape_reviews(t, mid, listing) ==
    ReviewsLoop(t, Paginate([j \in 1..Len(listing) |->
                                _parse_current_page_reviews(mid, listing[j])], 1, {}, <<>>))

\* _scrape_stories
StoriesLoop(t, r) ==
    IF SectionSaves(r) THEN SectionResult(r, save_part_review_stories(t, r.items))
    ELSE [SectionResult(r, t) EXCEPT !.saved = FALSE]

_scrape_stories(t, mid, listing) ==
    StoriesLoop(t, Paginate([j \in 1..Len(listing) |->
                                _parse_current_page_stories(mid, listing[j])], 1, {}, <<>>))

\* _scrape_questions
QuestionsLoop(t, r) ==
    IF SectionSaves(r) THEN SectionResult(r, save_part_qnas(t, r.items))
    ELSE [SectionResult(r, t) EXCEPT !.saved = FALSE]

_scrape_questions(t, mid, listing) ==
    QuestionsLoop(t, Paginate([j \in 1..Len(listing) |->
                                  _parse_qna_page(mid, listing[j])], 1, {}, <<>>))

\* Blocks of a section, and the container that holds a page of them.
BlockHT == [header |-> TextV(<<"h">>), text |-> TextV(<<"t", " ">>),
            model |-> TextV(<<"d", "1">>)]
BlockU == [header |-> Null, text |-> TextV(<<"u">>), model |-> Null]
BlockEmpty == [header |-> Null, text |-> Null, model |-> Null]

Container(blocks) == [k |-> "el", blocks |-> blocks]

-----------------------------------------------------------------------------
(* PartScraper.  An operation runs on a context: the instance's            *)
(* attributes (part_item, manufacturer_id, url), the tables it writes,     *)
(* whether an exception is propagating, and the extraction routines it     *)
(* has called so far.                                                      *)

Saved(c) == [c EXCEPT !.parts = save_part(c.parts, c.item)]
Called(c, routine) == [c EXCEPT !.calls = Append(@, routine)]
Raise(c) == [c EXCEPT !.raised = TRUE]
SetField(c, f, v) == [c EXCEPT !.item[f] = v]

\* _scrape_manufacturer_id
_scrape_manufacturer_id(c, pg) ==
    LET m == StrippedText(pg.mpn)
        d == Called(c, "_scrape_manufacturer_id")
    IN  IF Falsy(d.item["manufacturer_id"])
        THEN [SetField(d, "manufacturer_id", m) EXCEPT !.mid = m]
        ELSE d

\* property name
name(c, pg) ==
    IF Falsy(c.item["name"])
    THEN Saved(SetField(Called(c, "_scrape_name"), "name", _scrape_name(pg)))
    ELSE c

\* property part_select_id
part_select_id(c, pg) ==
    IF Falsy(c.item["part_select_id"])
    THEN Saved(SetField(Called(c, "_scrape_part_select_id"), "part_select_id",
                        _scrape_part_select_id(c.item, pg)))
    ELSE c

\* property price
price(c, pg) ==
    IF IsNull(c.item["price"])
    THEN IF _scrape_price(pg).raised
         THEN Raise(Called(c, "_scrape_price"))
         ELSE Saved(SetField(Called(c, "_scrape_price"), "price", _scrape_price(pg).val))
    ELSE c

\* property difficulty
difficulty(c, pg) ==
    IF IsNull(c.item["difficulty"])
    THEN Saved(SetField(Called(c, "_scrape_difficulty"), "difficulty", _scrape_difficulty(pg)))
    ELSE c

\* property time
time(c, pg) ==
    IF IsNull(c.item["time"])
    THEN Saved(SetField(Called(c, "_scrape_time"), "time", _scrape_time(pg)))
    ELSE c

\* property rating
rating(c, pg) ==
    IF IsNull(c.item["rating"])
    THEN IF _scrape_rating(pg).raised
         THEN Raise(Called(c, "_scrape_rating"))
         ELSE Saved(SetField(Called(c, "_scrape_rating"), "rating", _scrape_rating(pg).val))
    ELSE c

\* property description
description(c, pg) ==
    IF Falsy(c.item["description"])
    THEN Saved(SetField(Called(c, "_scrape_description"), "description",
                        _scrape_description(pg)))
    ELSE c

\* property related_parts: the value is written into the record only.
related_parts(c, pg) ==
    IF Falsy(c.item["related_parts"])
    THEN SetField(Called(c, "_scrape_related_parts"), "related_parts",
                  _scrape_related_parts(pg))
    ELSE c

\* Mutant of fixes: the record is saved as soon as fixes is assigned, before
\* part_replacements and products are.
fixes_unbundled(c, pg) ==
    IF Falsy(c.item["fixes"])
    THEN LET t == _scrape_troubleshooting(pg)
             d == Called(c, "_scrape_troubleshooting")
             e == Saved([d EXCEPT !.item["fixes"] = t.f])
         IN  IF t.raised THEN d
             ELSE [e EXCEPT !.item["part_replacements"] = t.r, !.item["products"] = t.p]
    ELSE c

\* property fixes: the triple is assigned and saved in one save_part; an
\* exception of the scrape is logged and swallowed.
fixes(c, pg) ==
    IF Falsy(c.item["fixes"])
    THEN LET t == _scrape_troubleshooting(pg)
             d == Called(c, "_scrape_troubleshooting")
         IN  IF t.raised THEN d
             ELSE Saved([d EXCEPT !.item["fixes"] = t.f,
                                  !.item["part_replacements"] = t.r,
                                  !.item["products"] = t.p])
    ELSE c

\* property part_replacements
part_replacements_prop(c, pg) ==
    IF Falsy(c.item["part_replacements"]) THEN fixes(c, pg) ELSE c

\* property products
products(c, pg) ==
    IF Falsy(c.item["products"]) THEN fixes(c, pg) ELSE c

\* property availability: the value is written into the record only.
availability(c, pg) ==
    IF Falsy(c.item["availability"])
    THEN SetField(Called(c, "_scrape_availability"), "availability",
                  _scrape_availability(c.item, pg))
    ELSE c

\* One accessor by name, as a client calls it.
Accessor(f, c, pg) ==
    CASE f = "name" -> name(c, pg)
      [] f = "part_select_id" -> part_select_id(c, pg)
      [] f = "price" -> price(c, pg)
      [] f = "difficulty" -> difficulty(c, pg)
      [] f = "time" -> time(c, pg)
      [] f = "rating" -> rating(c, pg)
      [] f = "description" -> description(c, pg)
      [] f = "related_parts" -> related_parts(c, pg)
      [] f = "fixes" -> fixes(c, pg)
      [] f = "part_replacements" -> part_replacements_prop(c, pg)
      [] f = "products" -> products(c, pg)
      [] f = "availability" -> availability(c, pg)

\* Statements in sequence: nothing runs once an exception propagates.
RECURSIVE InOrder(_, _, _)
InOrder(fs, c, pg) ==
    IF fs = <<>> \/ c.raised THEN c
    ELSE InOrder(Tail(fs), Accessor(Head(fs), c, pg), pg)

\* The replacement rows scrape_all builds from the record's part_replacements.
ReplacementsList(c) ==
    LET pieces == Split(c.item["part_replacements"].v, ",")
        kept == SelectSeq(pieces, LAMBDA r : Strip(r) # <<>>)
    IN  [j \in 1..Len(kept) |-> PartReplacementItem(Null, c.mid, TextV(Strip(kept[j])))]

\* What a section property leaves after a scrape: the table, the exception
\* if any, and the list returned.
Returned(c, ret) == [c EXCEPT !.ret = ret]

\* property reviews: the stored reviews of the part, scraped when there are
\* none.
ReviewsScraped(c, r) == Returned([c EXCEPT !.revs = r.table, !.raised = r.raised], r.ret)

reviews(c, pg) ==
    IF get_part_reviews(c.revs, c.mid) # <<>>
    THEN Returned(c, get_part_reviews(c.revs, c.mid))
    ELSE ReviewsScraped(Called(c, "_scrape_reviews"),
                        _scrape_reviews(c.revs, c.mid, pg.reviews))

\* property stories
StoriesScraped(c, r) ==
    Returned([c EXCEPT !.stories = r.table, !.raised = r.raised], r.ret)

stories(c, pg) ==
    IF get_part_review_stories(c.stories, c.mid) # <<>>
    THEN Returned(c, get_part_review_stories(c.stories, c.mid))
    ELSE StoriesScraped(Called(c, "_scrape_stories"),
                        _scrape_stories(c.stories, c.mid, pg.stories))

\* property questions: what is scraped is assigned to self.reviews, a
\* property without a setter, which raises AttributeError after the save.
QuestionsScraped(c, r) == Raise(Returned([c EXCEPT !.qnas = r.table], <<>>))

questions(c, pg) ==
    IF get_part_qnas(c.qnas, c.mid) # <<>>
    THEN Returned(c, get_part_qnas(c.qnas, c.mid))
    ELSE QuestionsScraped(Called(c, "_scrape_questions"),
                          _scrape_questions(c.qnas, c.mid, pg.qna))

\* `if not self.reviews: reviews = self.reviews` and the like: the property
\* is read again when the first read returned nothing.  `c` is the context
\* after the first read.
ReviewsAgain(c, pg) == IF c.raised \/ c.ret # <<>> THEN c ELSE reviews(c, pg)
StoriesAgain(c, pg) == IF c.raised \/ c.ret # <<>> THEN c ELSE stories(c, pg)
QuestionsAgain(c, pg) == IF c.raised \/ c.ret # <<>> THEN c ELSE questions(c, pg)

\* The steps of scrape_all, each on the context the one before left; none
\* runs once an exception propagates.
ScrapeFields(c, pg) ==
    InOrder(<< "name", "part_select_id", "price", "difficulty", "time", "rating",
               "description", "related_parts", "fixes", "part_replacements", "products" >>,
            IF Falsy(c.mid) THEN _scrape_manufacturer_id(c, pg) ELSE c, pg)

SaveRecord(c) == IF c.raised THEN c ELSE Saved(SetField(c, "url", c.url))

\* self.part_replacements is read again for the rows; None there has no
\* split() and raises.
StoreRows(c) ==
    IF IsNull(c.item["part_replacements"]) THEN Raise(c)
    ELSE [c EXCEPT !.reps = save_part_replacements(c.reps, ReplacementsList(c))]

StoreReplacements(c, pg) ==
    IF c.raised THEN c ELSE StoreRows(part_replacements_prop(c, pg))

ReadReviews(c, pg) == IF c.raised THEN c ELSE ReviewsAgain(reviews(c, pg), pg)
ReadStories(c, pg) == IF c.raised THEN c ELSE StoriesAgain(stories(c, pg), pg)
ReadQuestions(c, pg) == IF c.raised THEN c ELSE QuestionsAgain(questions(c, pg), pg)

Comments(c, pg, includeComments) ==
    IF includeComments THEN ReadQuestions(ReadStories(ReadReviews(c, pg), pg), pg) ELSE c

\* scrape_all(includeComments): the manufacturer id when missing, then every
\* accessor in the order of the source, the record saved, the replacement
\* rows inserted, and with includeComments the three sections.
scrape_all(c, pg, includeComments) ==
    Comments(StoreReplacements(SaveRecord(ScrapeFields(c, pg)), pg), pg, includeComments)

-----------------------------------------------------------------------------
(* The site and the workers.  The site has one part; its page URL and the  *)
(* search URL of its manufacturer id both lead to the part's page.  What   *)
(* the page serves varies from one operation to the next (elements         *)
(* missing, an overlay that intercepts clicks, a price that is no number): *)
(* every operation takes the page it is served as an input.                *)

PartId == TextV(<<"m", "1">>)
PageUrl == TextV(<<"U">>)

PageFull ==
    [ mpn |-> TextV(<<"m", "1">>),
      productID |-> TextV(<<"P", "S", "1">>),
      title |-> TextV(<<"W", " ">>),
      price |-> TextV(<<"$", "1", "9">>),
      repair |-> << TextV(<<"E">>), TextV(<<"1", "5">>) >>,
      rating |-> [k |-> "el", width |-> TextV(<<" ", "8", "0", "%", ";">>)],
      descr |-> TextV(<<"d">>),
      related |-> << [name |-> <<"R">>, href |-> <<"/", "r">>] >>,
      trouble |-> [k |-> "el", symptoms |-> << <<"L">> >>, products |-> << <<"F">> >>,
                   replaced_parts |-> << <<"A">>, <<"C">> >>],
      clickRaises |-> FALSE,
      avail |-> TextV(InStock),
      reviews |-> << Container(<< BlockHT >>), Container(<< BlockU >>) >>,
      stories |-> << Container(<< BlockHT, BlockHT >>) >>,
      qna |-> << Container(<< BlockHT >>) >> ]

\* Nothing of the part is served: every wait times out.
PageDown ==
    [ mpn |-> Null, productID |-> Null, title |-> Null, price |-> Null,
      repair |-> <<>>, rating |-> Null, descr |-> Null, related |-> <<>>,
      trouble |-> Null, clickRaises |-> FALSE, avail |-> Null,
      reviews |-> << Null >>, stories |-> << Null >>, qna |-> << Null >> ]

\* The price element carries a text that is no number.
PageBadPrice == [PageFull EXCEPT !.price = TextV(<<"N", "A">>)]

\* A thin page: no catalog id, no price, a blank description, one repair
\* item, no related parts, no troubleshooting section, and sections without
\* blocks.
PageSparse ==
    [PageFull EXCEPT !.productID = Null, !.price = Null, !.descr = TextV(<<" ">>),
                     !.repair = << TextV(<<"E">>) >>, !.rating = [k |-> "el", width |-> Null],
                     !.related = <<>>, !.trouble = Null,
                     !.reviews = << Container(<<>>) >>, !.stories = << Container(<<>>) >>,
                     !.qna = << Container(<<>>) >>]

\* An overlay intercepts the "Show more" click of the troubleshooting section.
PageOverlay == [PageFull EXCEPT !.clickRaises = TRUE]

Sites == { PageFull, PageDown, PageBadPrice, PageSparse, PageOverlay }

\* Operations of the workers in one behaviour of SpecScraper.
MaxOps == 3

AccessorNames ==
    { "name", "part_select_id", "price", "difficulty", "time", "rating",
      "description", "related_parts", "fixes", "part_replacements", "products",
      "availability" }

NoInstance == [live |-> FALSE, mid |-> Unset, url |-> Unset, item |-> Unset]

Ctx(item, mid, url) ==
    [item |-> item, mid |-> mid, url |-> url, parts |-> parts,
     reps |-> part_replacements, revs |-> part_reviews, stories |-> part_review_stories,
     qnas |-> part_qna, raised |-> FALSE, calls |-> <<>>, ret |-> <<>>]

\* The instance's attributes as an operation leaves them.
Attrs(c) == [live |-> TRUE, mid |-> c.mid, url |-> c.url, item |-> c.item]

\* The record the Store holds for the part of the page (the part a URL names).
RowOfPage == get_part(parts, PartId)

\* One worker, no scraper constructed yet, an empty store.
InitScraper ==
    /\ parts = <<>>
    /\ models = <<>>
    /\ part_replacements = <<>>
    /\ part_reviews = <<>>
    /\ part_review_stories = <<>>
    /\ part_qna = <<>>
    /\ scr = [w \in {"w1"} |-> NoInstance]
    /\ lastOp = [op |-> "init"]
    /\ nops = 0

\* The lookup of __init__ and new(): adopt the stored record (scraping the
\* catalog id, and dropping the result, when the record has none); otherwise
\* start a fresh record and scrape everything.  `fresh` is the context with
\* the new PartItem; byLink says that a URL was given.
Resolve(existing, mid, url, fresh, byLink, pg) ==
    IF existing # Null
    THEN IF Falsy(existing["part_select_id"])
         THEN Called(Ctx(existing, mid, url), "_scrape_part_select_id")
         ELSE Ctx(existing, mid, url)
    ELSE scrape_all(IF byLink THEN _scrape_manufacturer_id(fresh, pg) ELSE fresh, pg, FALSE)

\* What lastOp records for a construction or a new(): how the part was named,
\* whether the Store held a record of it, whether a record was adopted, the
\* extraction routines that ran and the page they ran on.
LookupOp(opname, w, mid, link, c, pg) ==
    [op |-> opname, inst |-> w,
     by |-> (IF IsNull(mid) THEN "url" ELSE IF IsNull(link) THEN "id" ELSE "both"),
     hadRow |-> (IF IsNull(mid) THEN RowOfPage ELSE get_part(parts, mid)) # Null,
     adopted |-> get_part(parts, mid) # Null,
     raised |-> c.raised, calls |-> c.calls, page |-> pg]

\* PartScraper(db=...) without id or link: a scraper with no target yet.
ConstructBare(w) ==
    /\ ~scr[w].live
    /\ scr' = [scr EXCEPT ![w] = [NoInstance EXCEPT !.live = TRUE]]
    /\ lastOp' = [op |-> "bare", inst |-> w]
    /\ nops' = nops + 1
    /\ UNCHANGED << parts, models, part_replacements, part_reviews, part_review_stories, part_qna >>

\* What an operation that ended in context c leaves in the tables.
Stored(c) ==
    /\ parts' = c.parts
    /\ part_replacements' = c.reps
    /\ part_reviews' = c.revs
    /\ part_review_stories' = c.stories
    /\ part_qna' = c.qnas
    /\ UNCHANGED models

\* The URL the instance is given: the link, or the search URL of the id.
TargetUrl(mid, link) == IF ~IsNull(link) THEN link ELSE PART_SEARCH(mid)

\* The fresh record of a part the Store does not hold.
Fresh(mid, link, url) ==
    IF ~IsNull(link) THEN Ctx(PartItem(Null, url), mid, url)
    ELSE Ctx(PartItem(mid, url), mid, url)

\* The end of __init__ in context c: an exception leaves no instance behind;
\* what was saved before it stays saved.
Constructed(w, mid, link, c, pg) ==
    /\ scr' = [scr EXCEPT ![w] = IF c.raised THEN NoInstance ELSE Attrs(c)]
    /\ Stored(c)
    /\ lastOp' = LookupOp("construct", w, mid, link, c, pg)
    /\ nops' = nops + 1

\* PartScraper(manufacturer_id=..., link=...) while the site serves pg.
Construct(w, mid, link, pg) ==
    /\ ~scr[w].live
    /\ ~(IsNull(mid) /\ IsNull(link))
    /\ Constructed(w, mid, link,
                   Resolve(get_part(parts, mid), mid, TargetUrl(mid, link),
                           Fresh(mid, link, TargetUrl(mid, link)), ~IsNull(link), pg),
                   pg)

\* The end of new() in context c.
Retargeted(w, mid, link, c, pg) ==
    /\ scr' = [scr EXCEPT ![w] = Attrs(c)]
    /\ Stored(c)
    /\ lastOp' = LookupOp("new", w, mid, link, c, pg)
    /\ nops' = nops + 1

\* new() from the lookup on: the record is built from the URL the instance
\* has, and an instance that has none raises AttributeError.
Renew(w, mid, link, url, pg) ==
    IF get_part(parts, mid) = Null /\ url = Unset
    THEN Raise(Ctx(scr[w].item, mid, url))
    ELSE Resolve(get_part(parts, mid), mid, url, Fresh(mid, link, url), ~IsNull(link), pg)

\* new(url=..., manufacturer_id=...) while the site serves pg.  With a URL
\* alone self.url is not assigned and stays what it was.
New(w, mid, link, pg) ==
    /\ scr[w].live
    /\ ~(IsNull(mid) /\ IsNull(link))
    /\ Retargeted(w, mid, link,
                  Renew(w, mid, link, IF ~IsNull(mid) THEN PART_SEARCH(mid) ELSE scr[w].url, pg),
                  pg)

\* The end of a property read of field f in context c.
Accessed(w, f, c) ==
    /\ scr' = [scr EXCEPT ![w] = Attrs(c)]
    /\ Stored(c)
    /\ lastOp' = [op |-> "access", inst |-> w, field |-> f,
                  miss |-> IsNull(scr[w].item[f]),
                  raised |-> c.raised, calls |-> c.calls,
                  ret |-> IF c.raised THEN Null ELSE c.item[f]]
    /\ nops' = nops + 1

\* A client reads property f of a scraper that has a record, while the site
\* serves pg.
Access(w, f, pg) ==
    /\ scr[w].live
    /\ scr[w].item # Unset
    /\ Accessed(w, f, Accessor(f, Ctx(scr[w].item, scr[w].mid, scr[w].url), pg))

\* The end of scrape_all in context c.
ScrapedAll(w, c, pg, includeComments) ==
    /\ scr' = [scr EXCEPT ![w] = Attrs(c)]
    /\ Stored(c)
    /\ lastOp' = [op |-> "scrape_all", inst |-> w, raised |-> c.raised,
                  calls |-> c.calls, page |-> pg, comments |-> includeComments]
    /\ nops' = nops + 1

\* A client calls scrape_all(includeComments) on a scraper that has a
\* record, while the site serves pg.
ScrapeAll(w, pg, includeComments) ==
    /\ scr[w].live
    /\ scr[w].item # Unset
    /\ ScrapedAll(w, scrape_all(Ctx(scr[w].item, scr[w].mid, scr[w].url), pg, includeComments),
                  pg, includeComments)

Targets == { Null, PartId } \X { Null, PageUrl }

NextScraper ==
    \/ \E w \in {"w1"} : nops < MaxOps /\ ConstructBare(w)
    \/ \E w \in {"w1"}, t \in Targets, pg \in Sites :
           nops < MaxOps /\ Construct(w, t[1], t[2], pg)
    \/ \E w \in {"w1"}, t \in Targets, pg \in Sites :
           nops < MaxOps /\ New(w, t[1], t[2], pg)
    \/ \E w \in {"w1"}, f \in AccessorNames, pg \in Sites :
           nops < MaxOps /\ Access(w, f, pg)
    \/ \E w \in {"w1"}, pg \in Sites, includeComments \in BOOLEAN :
           nops < MaxOps /\ ScrapeAll(w, pg, includeComments)

SpecScraper == InitScraper /\ [][NextScraper]_vars

\* An operation that ran scrape_all to its end: scrape_all itself, or a
\* construction or new() that found no record to adopt.
RanScrapeAll(o) ==
    /\ \/ o.op = "scrape_all"
       \/ o.op \in { "construct", "new" } /\ ~o.adopted
    /\ ~o.raised

\* C3 (no duplication across repeated runs): a scrape_all that follows a
\* completed scrape_all of the same scraper, for the same manufacturer_id
\* and on the same page content, leaves every table with the rows it had.
C3_NoDuplication ==
    [][ ( /\ RanScrapeAll(lastOp)
          /\ lastOp'.op = "scrape_all"
          /\ ~lastOp'.raised
          /\ lastOp'.inst = lastOp.inst
          /\ lastOp'.page = lastOp.page
          /\ ~IsNull(scr[lastOp.inst].mid)
          /\ scr'[lastOp.inst].mid = scr[lastOp.inst].mid )
        => tables' = tables
      ]_vars

\* The accessors the write-through contract names.
WriteThroughFields ==
    { "name", "part_select_id", "price", "difficulty", "time", "rating",
      "description", "related_parts", "availability" }

\* C5 (write-through on miss): when an accessor found its field null in the
\* record and its extraction routine returned a value, the row the Store
\* holds for the part holds that value when the accessor has returned.
C5_WriteThrough ==
    ( /\ lastOp.op = "access"
      /\ lastOp.field \in WriteThroughFields
      /\ lastOp.miss
      /\ ~lastOp.raised
      /\ ~Falsy(lastOp.ret)
      /\ ~IsNull(scr[lastOp.inst].mid) )
    => /\ get_part(parts, scr[lastOp.inst].mid) # Null
       /\ get_part(parts, scr[lastOp.inst].mid)[lastOp.field] = lastOp.ret

\* C9 (construction resolves the cached record): a construction or new(), by
\* manufacturer id or by URL, that finds the part in the Store adopts the
\* stored record and runs no scrape beyond that of a missing catalog id.
C9_AdoptsStored ==
    ( /\ lastOp.op \in { "construct", "new" }
      /\ lastOp.hadRow )
    => /\ lastOp.adopted
       /\ \A n \in 1..Len(lastOp.calls) : lastOp.calls[n] = "_scrape_part_select_id"

\* C10 (construction fills the missing catalog id): when the record adopted
\* at construction has no part_select_id, construction scrapes that field and
\* no other, and when the page provides it the scraper's record has a
\* part_select_id once construction has finished.
C10_FillsCatalogId ==
    ( /\ lastOp.op \in { "construct", "new" }
      /\ lastOp.adopted
      /\ ~lastOp.raised
      /\ lastOp.calls # <<>> )
    => /\ lastOp.calls = << "_scrape_part_select_id" >>
       /\ ~IsNull(lastOp.page.productID)
             => ~Falsy(scr[lastOp.inst].item["part_select_id"])

-----------------------------------------------------------------------------
(* The section scrapers run on their own, for any id and any listing.     *)

\* Runs of the section scrapers in one behaviour of SpecReviews.
MaxRuns == 2

\* What a section serves: its pages in order.
Listings ==
    { << Container(<< BlockHT >>) >>,
      << Container(<< BlockHT, BlockHT >>) >>,
      << Container(<< BlockHT >>), Container(<< BlockHT >>) >>,
      << Container(<< BlockHT >>), Container(<< BlockU >>) >>,
      << Container(<< BlockU >>), Container(<< BlockU >>) >>,
      << Container(<< BlockEmpty >>) >>,
      << Container(<<>>) >>,
      << Container(<< BlockHT >>), Null >>,
      << Null >> }

\* The manufacturer ids of the scrapers that run the sections.
SectionIds == { TextV(<<"m", "1">>), TextV(<<"M", "1">>), Null }

InitReviews ==
    /\ parts = <<>>
    /\ models = <<>>
    /\ part_replacements = <<>>
    /\ part_reviews = <<>>
    /\ part_review_stories = <<>>
    /\ part_qna = <<>>
    /\ scr = NoScrapers
    /\ lastOp = [op |-> "init"]
    /\ nops = 0

\* What lastOp records for a run of a section: the records it returned,
\* whether it saved them, and whether a row with the id of one of them was
\* in the table before the run.
SectionOp(section, mid, r, t, pk) ==
    [op |-> section, mid |-> mid, raised |-> r.raised, ret |-> r.ret, saved |-> r.saved,
     known |-> \E j \in 1..Len(r.ret) : Matches(t, pk, r.ret[j][pk]) # {}]

ScrapeReviews(mid, listing) ==
    LET r == _scrape_reviews(part_reviews, mid, listing)
    IN  /\ part_reviews' = r.table
        /\ lastOp' = SectionOp("reviews", mid, r, part_reviews, "review_id")
        /\ nops' = nops + 1
        /\ UNCHANGED << parts, models, part_replacements, part_review_stories, part_qna, scr >>

ScrapeStories(mid, listing) ==
    LET r == _scrape_stories(part_review_stories, mid, listing)
    IN  /\ part_review_stories' = r.table
        /\ lastOp' = SectionOp("stories", mid, r, part_review_stories, "story_id")
        /\ nops' = nops + 1
        /\ UNCHANGED << parts, models, part_replacements, part_reviews, part_qna, scr >>

ScrapeQuestions(mid, listing) ==
    LET r == _scrape_questions(part_qna, mid, listing)
    IN  /\ part_qna' = r.table
        /\ lastOp' = SectionOp("questions", mid, r, part_qna, "qna_id")
        /\ nops' = nops + 1
        /\ UNCHANGED << parts, models, part_replacements, part_reviews,
                        part_review_stories, scr >>

NextReviews ==
    \/ \E mid \in SectionIds, l \in Listings : nops < MaxRuns /\ ScrapeReviews(mid, l)
    \/ \E mid \in SectionIds, l \in Listings : nops < MaxRuns /\ ScrapeStories(mid, l)
    \/ \E mid \in SectionIds, l \in Listings : nops < MaxRuns /\ ScrapeQuestions(mid, l)

SpecReviews == InitReviews /\ [][NextReviews]_vars

\* Two rows or records that agree on every column but the key.
SameContent(a, b, cols, pk) == \A c \in ColSet(cols) \ {pk} : a[c] = b[c]

\* Table t holds no two rows of the same manufacturer_id and content; every
\* record of ret has the id of every record of ret and of every row of t with
\* its manufacturer_id and content; and once ret is saved each of its records
\* has exactly one row with its id.
Deduplicated(t, cols, pk, ret, saved) ==
    /\ \A i, j \in 1..Len(t) : SameContent(t[i], t[j], cols, pk) => i = j
    /\ \A n \in 1..Len(ret) :
          /\ \A m \in 1..Len(ret) :
                SameContent(ret[n], ret[m], cols, pk) => ret[n][pk] = ret[m][pk]
          /\ \A j \in 1..Len(t) :
                SameContent(ret[n], t[j], cols, pk) => ret[n][pk] = t[j][pk]
          /\ saved => Cardinality({ j \in 1..Len(t) : t[j][pk] = ret[n][pk] }) = 1

\* C2 (dedup determinism): reviews, stories and questions built from the same
\* manufacturer_id and the same content carry the same id, whether they come
\* from one run or from two, and after they are saved their table holds
\* exactly one row for them.
C2_DedupDeterminism ==
    /\ Deduplicated(part_reviews, ReviewCols, "review_id",
                    IF lastOp.op = "reviews" THEN lastOp.ret ELSE <<>>,
                    lastOp.op = "reviews" /\ lastOp.saved)
    /\ Deduplicated(part_review_stories, StoryCols, "story_id",
                    IF lastOp.op = "stories" THEN lastOp.ret ELSE <<>>,
                    lastOp.op = "stories" /\ lastOp.saved)
    /\ Deduplicated(part_qna, QnACols, "qna_id",
                    IF lastOp.op = "questions" THEN lastOp.ret ELSE <<>>,
                    lastOp.op = "questions" /\ lastOp.saved)

\* C2 witness: a run has returned the same review twice and saved both, an
\* earlier run had stored that review already, and the table holds one row.
C2_Witness ==
    /\ lastOp.op = "reviews"
    /\ lastOp.saved
    /\ lastOp.known
    /\ Len(lastOp.ret) = 2
    /\ lastOp.ret[1] = lastOp.ret[2]
    /\ Len(part_reviews) = 1
    /\ part_reviews[1] = lastOp.ret[1]

-----------------------------------------------------------------------------
(* Two scraper instances on the same part, each with its own PartItem,     *)
(* sharing the Store.  Their operations interleave in any order.           *)

\* Operations of the two workers in one behaviour of SpecWorkers.
MaxSteps == 4

Inst == { "w1", "w2" }

InitWorkers ==
    /\ parts = <<>>
    /\ models = <<>>
    /\ part_replacements = <<>>
    /\ part_reviews = <<>>
    /\ part_review_stories = <<>>
    /\ part_qna = <<>>
    /\ scr = [w \in Inst |-> NoInstance]
    /\ lastOp = [op |-> "init"]
    /\ nops = 0

NextWorkers ==
    \/ \E w \in Inst, pg \in Sites : nops < MaxSteps /\ Construct(w, PartId, Null, pg)
    \/ \E w \in Inst, f \in AccessorNames, pg \in Sites :
           nops < MaxSteps /\ Access(w, f, pg)

SpecWorkers == InitWorkers /\ [][NextWorkers]_vars

\* An access of price that failed: the extraction raised (a price text that
\* is no number) or found nothing (time-out, element missing).
PriceFailed(o) ==
    /\ o.op = "access"
    /\ o.field = "price"
    /\ o.miss
    /\ o.raised \/ IsNull(o.ret)

TripleFields == { "fixes", "part_replacements", "products" }

\* C7 (atomic triple): in every state of the Store, whatever the interleaving
\* of the scrapers' operations, fixes, part_replacements and products of a
\* stored part are all null or all non-null.
C7_AtomicTriple ==
    \A j \in 1..Len(parts) :
        \/ \A f \in TripleFields : IsNull(parts[j][f])
        \/ \A f \in TripleFields : ~IsNull(parts[j][f])

\* C7 witness: with two scrapers at work on the part, an accessor of the
\* triple has just scraped the section and the stored part holds all three.
C7_Witness ==
    /\ lastOp.op = "access"
    /\ lastOp.field \in TripleFields
    /\ lastOp.calls = << "_scrape_troubleshooting" >>
    /\ \A w \in Inst : scr[w].live
    /\ get_part(parts, PartId) # Null
    /\ get_part(parts, PartId)["fixes"] = TextV(<<"L">>)
    /\ get_part(parts, PartId)["part_replacements"] = TextV(<<"A", ",", " ", "C">>)
    /\ get_part(parts, PartId)["products"] = TextV(<<"F">>)

\* C8 (store safe for concurrent writers): when two scrapers interleave
\* their saves for one manufacturer_id, no save turns a stored field to null
\* and every value a scraper has scraped and stored stays in the row.
C8_ConcurrentWriters ==
    [][ get_part(parts, PartId) # Null
        => /\ get_part(parts', PartId) # Null
           /\ \A c \in ColSet(PartCols) :
                 /\ ~IsNull(get_part(parts, PartId)[c]) => ~IsNull(get_part(parts', PartId)[c])
                 /\ ~Falsy(get_part(parts, PartId)[c])
                       => get_part(parts', PartId)[c] = get_part(parts, PartId)[c]
      ]_vars

-----------------------------------------------------------------------------
(* ModelScraper.  The model's page is a record of the elements its         *)
(* selectors look for (title, descr, the a.symptoms anchors) and the       *)
(* paginated parts listing behind parts_url: a sequence of pages, each the *)
(* sequence of its div.mega-m__part blocks; a page past the end of the     *)
(* listing has no block.  A list of ids is the value ListV(set): the code  *)
(* builds it from a set, so its order carries no information.              *)

ListV(s) == [k |-> "list", v |-> s]

\* `not x` for the values a ModelItem field can hold.
ModelFalsy(x) == Falsy(x) \/ (x.k = "list" /\ x.v = {})

\* get_item(...) or "" with the parser el.text.strip()
TextOrBlank(el) == IF IsNull(el) THEN TextV(<<>>) ELSE TextV(Strip(el.v))

model_scrape_name(pg) == TextOrBlank(pg.title)

model_scrape_description(pg) == TextOrBlank(pg.descr)

\* _parse_part_block: the text after the "PartSelect #:" label, stripped,
\* or None when the block has no such label.
_parse_part_block(block) ==
    [part_select_id |-> IF IsNull(block.ps) THEN Null ELSE TextV(Strip(block.ps.v))]

\* get_items("div.mega-m__part", page_url, parser=_parse_part_block)
PartBlocks(listing, page) ==
    IF page <= Len(listing)
    THEN [j \in 1..Len(listing[page]) |-> _parse_part_block(listing[page][j])]
    ELSE <<>>

\* ids = [p.part_select_id for p in parts if p.part_select_id]
RECURSIVE PageIds(_)
PageIds(blocks) ==
    IF blocks = <<>> THEN <<>>
    ELSE IF Falsy(Head(blocks).part_select_id) THEN PageIds(Tail(blocks))
         ELSE << Head(blocks).part_select_id >> \o PageIds(Tail(blocks))

IdSet(ids) == { ids[j] : j \in 1..Len(ids) }

\* The loop of _scrape_part_ids without a query, entered for page `page`
\* with all_ids collected and popup_clicked.  The test that ends the loop
\* compares the number of ids on this page with the number collected
\* before it.  The result: what is returned, the number of the last page
\* fetched, and the number of click_popup calls.
RECURSIVE PartIdsLoop(_, _, _, _)
PartIdsLoop(listing, page, all_ids, popup_clicked) ==
    IF PartBlocks(listing, page) = <<>> /\ page = 1
    THEN [ret |-> TextV(<<>>), fetched |-> 1, popups |-> 0]
    ELSE IF PageIds(PartBlocks(listing, page)) = <<>>
            \/ Len(PageIds(PartBlocks(listing, page))) = Cardinality(all_ids)
         THEN IF popup_clicked
              THEN [ret |-> ListV(all_ids \cup IdSet(PageIds(PartBlocks(listing, page)))),
                    fetched |-> page, popups |-> 1]
              ELSE PartIdsLoop(listing, page + 1,
                               all_ids \cup IdSet(PageIds(PartBlocks(listing, page))), TRUE)
         ELSE PartIdsLoop(listing, page + 1,
                          all_ids \cup IdSet(PageIds(PartBlocks(listing, page))),
                          popup_clicked)

\* _scrape_part_ids(query=None)
_scrape_part_ids(listing) == PartIdsLoop(listing, 1, {}, FALSE)

\* _scrape_symptoms: "" without anchors, else the note followed by the
\* lines "i. <site><href>\n<description>\n" joined by newlines.
SymptomsNote == << "(links below provide lists of symptoms)" >>

SymptomLine(j, el) ==
    << Digits[j + 1], ".", " " >> \o RStrip(base_url, "/") \o el.href \o << "\n" >>
        \o (IF IsNull(el.descr) THEN <<>> ELSE Strip(el.descr.v)) \o << "\n" >>

_scrape_symptoms(pg) ==
    IF pg.symptoms = <<>> THEN TextV(<<>>)
    ELSE TextV(SymptomsNote
               \o Join(<< "\n" >>, [j \in 1..Len(pg.symptoms) |-> SymptomLine(j, pg.symptoms[j])]))

\* The context of a ModelScraper call: the instance's model_id and model,
\* the models table, and what the call did on the listing.
MCtx(model_id, model, models_t) ==
    [model_id |-> model_id, model |-> model, models |-> models_t, fetched |-> 0]

\* properties name, description, symptoms and parts: scrape when the field
\* is missing and keep the value on the instance's record.
model_name(c, pg) ==
    IF ModelFalsy(c.model["name"])
    THEN [c EXCEPT !.model["name"] = model_scrape_name(pg)]
    ELSE c

model_description(c, pg) ==
    IF ModelFalsy(c.model["description"])
    THEN [c EXCEPT !.model["description"] = model_scrape_description(pg)]
    ELSE c

model_symptoms(c, pg) ==
    IF ModelFalsy(c.model["symptoms"])
    THEN [c EXCEPT !.model["symptoms"] = _scrape_symptoms(pg)]
    ELSE c

model_parts(c, pg) ==
    IF ModelFalsy(c.model["parts"])
    THEN [c EXCEPT !.model["parts"] = _scrape_part_ids(pg.listing).ret,
                   !.fetched = _scrape_part_ids(pg.listing).fetched]
    ELSE c

ModelAccessor(f, c, pg) ==
    CASE f = "name" -> model_name(c, pg)
      [] f = "description" -> model_description(c, pg)
      [] f = "symptoms" -> model_symptoms(c, pg)
      [] f = "parts" -> model_parts(c, pg)

\* ModelScraper.scrape_all: adopt the stored record as it is; without one,
\* scrape name, description and symptoms into a new record and save it.
ModelSaved(c) == [c EXCEPT !.models = save_model(c.models, c.model)]

ModelAdopt(c, existing, pg) ==
    IF existing # Null
    THEN [c EXCEPT !.model = existing]
    ELSE ModelSaved(model_symptoms(model_description(
             model_name([c EXCEPT !.model = ModelItem(c.model_id)], pg), pg), pg))

model_scrape_all(c, pg) == ModelAdopt(c, get_model(c.models, c.model_id), pg)

\* ----- the site and the clients of a ModelScraper -----

ModelId == TextV(<<"D", "1">>)

PartBlock(id) == [ps |-> TextV(<<" ">> \o id \o <<" ">>)]
NoIdBlock == [ps |-> Null]

\* Parts listings: empty, one page, pages of different sizes, a page that
\* repeats an earlier one, a block without an id.
PartListings ==
    { <<>>,
      << << PartBlock(<<"a">>) >> >>,
      << << PartBlock(<<"a">>), PartBlock(<<"b">>) >>, << PartBlock(<<"c">>) >> >>,
      << << PartBlock(<<"a">>), PartBlock(<<"b">>) >>,
         << PartBlock(<<"b">>), PartBlock(<<"a">>) >> >>,
      << << PartBlock(<<"a">>) >>, << PartBlock(<<"b">>) >>,
         << PartBlock(<<"c">>), PartBlock(<<"d">>) >>, << PartBlock(<<"e">>) >> >>,
      << << PartBlock(<<"a">>) >>, << PartBlock(<<"a">>) >>, << PartBlock(<<"b">>) >> >>,
      << << PartBlock(<<"a">>), NoIdBlock >>, << PartBlock(<<"b">>) >> >>,
      << << NoIdBlock >> >> }

ModelPageFull ==
    [title |-> TextV(<<" ", "N", " ">>),
     descr |-> TextV(<<"d">>),
     symptoms |-> << [href |-> <<"/", "s">>, descr |-> TextV(<<"l">>)],
                     [href |-> <<"/", "t">>, descr |-> Null] >>,
     listing |-> <<>>]

ModelPageBare == [title |-> Null, descr |-> Null, symptoms |-> <<>>, listing |-> <<>>]

ModelPages ==
    { [ModelPageFull EXCEPT !.listing = l] : l \in PartListings } \cup { ModelPageBare }

\* Operations of one behaviour of SpecModel.
MaxModelOps == 3

ModelFields == { "name", "description", "symptoms", "parts" }

\* ModelScraper(db): no model_id and no model until new() is called.
InitModel ==
    /\ parts = <<>>
    /\ models = <<>>
    /\ part_replacements = <<>>
    /\ part_reviews = <<>>
    /\ part_review_stories = <<>>
    /\ part_qna = <<>>
    /\ scr = [w \in {"w1"} |-> [model_id |-> Null, model |-> Null]]
    /\ lastOp = [op |-> "init"]
    /\ nops = 0

\* new(model_id) while the site serves pg: a falsy model_id raises
\* ValueError before anything else happens.
ModelNewDone(w, model_id, c, pg) ==
    /\ scr' = [scr EXCEPT ![w] = [model_id |-> c.model_id, model |-> c.model]]
    /\ models' = c.models
    /\ lastOp' = [op |-> "model_new", inst |-> w, id |-> model_id, page |-> pg,
                  raised |-> FALSE, hadRow |-> get_model(models, model_id) # Null]
    /\ nops' = nops + 1
    /\ UNCHANGED << parts, part_replacements, part_reviews, part_review_stories, part_qna >>

ModelNew(w, model_id, pg) ==
    IF ModelFalsy(model_id)
    THEN /\ lastOp' = [op |-> "model_new", inst |-> w, id |-> model_id, page |-> pg,
                       raised |-> TRUE, hadRow |-> FALSE]
         /\ nops' = nops + 1
         /\ UNCHANGED << tables, scr >>
    ELSE ModelNewDone(w, model_id, model_scrape_all(MCtx(model_id, scr[w].model, models), pg), pg)

\* A client reads property f; before new() there is no record to read
\* (self.model is None) and the read raises AttributeError.
ModelAccessed(w, f, c, pg) ==
    /\ scr' = [scr EXCEPT ![w].model = c.model]
    /\ lastOp' = [op |-> "model_access", inst |-> w, field |-> f, page |-> pg,
                  raised |-> FALSE, miss |-> ModelFalsy(scr[w].model[f]),
                  fetched |-> c.fetched,
                  ret |-> IF ModelFalsy(c.model[f]) THEN TextV(<<>>) ELSE c.model[f]]
    /\ nops' = nops + 1
    /\ UNCHANGED tables

ModelAccess(w, f, pg) ==
    IF scr[w].model = Null
    THEN /\ lastOp' = [op |-> "model_access", inst |-> w, field |-> f, page |-> pg,
                       raised |-> TRUE, miss |-> FALSE, fetched |-> 0, ret |-> Null]
         /\ nops' = nops + 1
         /\ UNCHANGED << tables, scr >>
    ELSE ModelAccessed(w, f, ModelAccessor(f, MCtx(scr[w].model_id, scr[w].model, models), pg), pg)

NextModel ==
    \/ SaveModel
    \/ \E w \in {"w1"}, id \in { Null, ModelId }, pg \in ModelPages :
           nops < MaxModelOps /\ ModelNew(w, id, pg)
    \/ \E w \in {"w1"}, f \in ModelFields, pg \in ModelPages :
           nops < MaxModelOps /\ ModelAccess(w, f, pg)

SpecModel == InitModel /\ [][NextModel]_vars

\* What the page provides for a field of the model.
Provides(pg, f) ==
    CASE f = "name" -> ~IsNull(pg.title) /\ Strip(pg.title.v) # <<>>
      [] f = "description" -> ~IsNull(pg.descr) /\ Strip(pg.descr.v) # <<>>
      [] f = "symptoms" -> pg.symptoms # <<>>
      [] f = "parts" -> \E p \in 1..Len(pg.listing) : PageIds(PartBlocks(pg.listing, p)) # <<>>

\* C11: after ModelScraper.new(model_id) has run scrape_all and returned,
\* the stored record of that model has every one of name, description,
\* symptoms and parts that the page provides, also when a partially
\* populated record was in the store before the call.
C11_ModelFullyPopulated ==
    (lastOp.op = "model_new" /\ ~lastOp.raised)
        => /\ get_model(models, lastOp.id) # Null
           /\ \A f \in ModelFields :
                  Provides(lastOp.page, f) => ~ModelFalsy(get_model(models, lastOp.id)[f])

\* The ids of pages 1..n of a listing, and the number of the last page
\* before the first one that shows no id that was not on an earlier page.
ShownUpTo(listing, n) == UNION { IdSet(PageIds(PartBlocks(listing, p))) : p \in 1..n }

LastNewPage(listing) ==
    CHOOSE n \in 0..Len(listing) :
        /\ IdSet(PageIds(PartBlocks(listing, n + 1))) \subseteq ShownUpTo(listing, n)
        /\ \A h \in 0..(n - 1) :
               ~(IdSet(PageIds(PartBlocks(listing, h + 1))) \subseteq ShownUpTo(listing, h))

\* C20: in full-listing mode _scrape_part_ids returns exactly the distinct
\* part ids of pages 1..n, page n+1 being the first page with no id that
\* was not already collected, and it fetches every page up to that one.
C20_FullListing ==
    (lastOp.op = "model_access" /\ lastOp.field = "parts" /\ lastOp.miss /\ ~lastOp.raised)
        => /\ (IF lastOp.ret.k = "list" THEN lastOp.ret.v ELSE {})
                  = ShownUpTo(lastOp.page.listing, LastNewPage(lastOp.page.listing))
           /\ lastOp.fetched >= LastNewPage(lastOp.page.listing)

-----------------------------------------------------------------------------
(* PartScraper.scrape_all and a field whose extraction fails.              *)

\* The call sequence of the routine names in a list of calls.
CalledIn(calls, routine) == \E j \in 1..Len(calls) : calls[j] = routine

\* C12: when the extraction routine of one field fails during scrape_all
\* (here _scrape_price, whose float() raises on a text that is no number),
\* the failure does not leave scrape_all, the field stays null, the fields
\* after it are still attempted and the record is saved.
C12_SurvivesFailingField ==
    ( /\ lastOp.op = "scrape_all"
      /\ CalledIn(lastOp.calls, "_scrape_price")
      /\ _scrape_price(lastOp.page).raised )
        => /\ ~lastOp.raised
           /\ IsNull(scr[lastOp.inst].item["price"])
           /\ CalledIn(lastOp.calls, "_scrape_troubleshooting")
           /\ get_part(parts, scr[lastOp.inst].mid) # Null

-----------------------------------------------------------------------------
(* AbstractScraper: the browser session.  A scraper instance has a driver  *)
(* with a current location; what the browser and the site do in answer to  *)
(* a call (a navigation that finds the window gone, a wait that times out, *)
(* the body of a response, a click that is intercepted) is an input of the *)
(* call.  Every operation reports the drivers it created and quit and the  *)
(* navigations (driver.get) it issued.                                     *)

SEARCH_URL(mid) == TextV(<<"Q", "=">> \o mid.v)

\* The outcome of __init__'s navigation: the search branch alone catches
\* NoSuchWindowException, quits the driver, creates another and navigates
\* again; in the other two branches, and on the second navigation, the
\* exception leaves the constructor.
OpenAt(url, mode, first, retry) ==
    IF first = "ok"
    THEN [raised |-> FALSE, drivers |-> 1, quits |-> 0, gets |-> 1, current_url |-> url]
    ELSE IF mode = "search"
         THEN [raised |-> retry # "ok", drivers |-> 2, quits |-> 1, gets |-> 2,
               current_url |-> IF retry = "ok" THEN url ELSE Null]
         ELSE [raised |-> TRUE, drivers |-> 1, quits |-> 0, gets |-> 1, current_url |-> Null]

\* AbstractScraper.__init__(start_url, manufacturer_id)
open(start_url, manufacturer_id, first, retry) ==
    IF ~Falsy(start_url) THEN OpenAt(start_url, "start_url", first, retry)
    ELSE IF ~Falsy(manufacturer_id)
         THEN OpenAt(SEARCH_URL(manufacturer_id), "search", first, retry)
         ELSE OpenAt(TextV(base_url), "default", first, retry)

\* str.startswith
startswith_any(s, prefix) == TRUE

startswith(s, prefix) ==
    Len(s) >= Len(prefix) /\ SubSeq(s, 1, Len(prefix)) = prefix

CompatUrl(model_id, inventoryid) ==
    TextV(<<"C", "?", "m", "=">> \o model_id \o <<"&", "i", "=">> \o inventoryid)

MATCH == TextV(<<"M", "A", "T", "C", "H">>)

\* The side trip of checkCompatibility from prev_url: navigate, wait for
\* the body, json.loads its text, read compatibilityCheckResult, navigate
\* back.  A wait that times out and a body that is no JSON raise at once.
SideTrip(prev_url, url, wait, body) ==
    IF wait = "timeout"
    THEN [raised |-> "TimeoutException", ret |-> Null, gets |-> 1, current_url |-> url]
    ELSE IF body.k # "json"
         THEN [raised |-> "JSONDecodeError", ret |-> Null, gets |-> 1, current_url |-> url]
         ELSE [raised |-> "none", ret |-> (body.compatibilityCheckResult = MATCH),
               gets |-> 2, current_url |-> prev_url]

\* checkCompatibility(model_id, part_select_id) of a session at prev_url;
\* part_id stands for the parameter part_select_id.
checkCompatibility(prev_url, model_id, part_id, wait, body) ==
    IF startswith(part_id, <<"P", "S">>)
    THEN SideTrip(prev_url, CompatUrl(model_id, SubSeq(part_id, 3, Len(part_id))),
                  wait, body)
    ELSE [raised |-> "ValueError", ret |-> Null, gets |-> 0, current_url |-> prev_url]

\* click, second half: the handler of an intercepted or not interactable
\* click calls click_popup once and clicks again; whatever fails there
\* gives False.
click_retry_forever(second) == [ret |-> TRUE, raised |-> FALSE, clicks |-> 3, popups |-> 2]

click_retry(second) ==
    [ret |-> (second = "ok"), raised |-> FALSE, clicks |-> 2, popups |-> 1]

\* click, first half: the element is there and accepted.  Any other
\* exception of the first click leaves click (raised; ret is then unused).
click_found(first, second) ==
    CASE first = "ok" -> [ret |-> TRUE, raised |-> FALSE, clicks |-> 1, popups |-> 0]
      [] first \in { "intercepted", "not_interactable" } -> click_retry(second)
      [] first = "stale" -> [ret |-> FALSE, raised |-> FALSE, clicks |-> 1, popups |-> 0]
      [] OTHER -> [ret |-> FALSE, raised |-> TRUE, clicks |-> 1, popups |-> 0]

\* click(url, css_path, reset_soup, condition): found is "absent" when
\* find_element raises NoSuchElementException, "rejected" when the
\* condition is given and false of the element, "accepted" otherwise.
click(found, first, second) ==
    IF found \in { "absent", "rejected" }
    THEN [ret |-> FALSE, raised |-> FALSE, clicks |-> 0, popups |-> 0]
    ELSE click_found(first, second)

\* set_soup(url): navigate unless the driver is there already.
set_soup(current_url, url) == IF current_url # url THEN 1 ELSE 0

\* ----- the clients of a session -----

\* Operations of one behaviour of SpecSession.
MaxSessionOps == 3

StartUrls == { Null, PageUrl }
SearchIds == { Null, PartId }
NavOutcomes == { "ok", "crash" }

\* Argument pairs of checkCompatibility, in the order they are passed:
\* a part id with and without the prefix, a model id, and a model id that
\* itself begins with the letters PS.
CompatArgs ==
    { << <<"P", "S", "1">>, <<"M", "1">> >>,
      << <<"M", "1">>, <<"P", "S", "1">> >>,
      << <<"1">>, <<"M", "1">> >>,
      << <<"M", "1">>, <<"1">> >>,
      << <<"P", "S", "1">>, <<"P", "S", "E">> >> }

Bodies ==
    { [k |-> "json", compatibilityCheckResult |-> MATCH],
      [k |-> "json", compatibilityCheckResult |-> TextV(<<"N", "O">>)],
      [k |-> "json", compatibilityCheckResult |-> Null],
      [k |-> "html"] }

InitSession ==
    /\ parts = <<>>
    /\ models = <<>>
    /\ part_replacements = <<>>
    /\ part_reviews = <<>>
    /\ part_review_stories = <<>>
    /\ part_qna = <<>>
    /\ scr = [w \in {"w1"} |-> [live |-> FALSE, current_url |-> Null]]
    /\ lastOp = [op |-> "init"]
    /\ nops = 0

Opened(w, start_url, manufacturer_id, first, retry, r) ==
    /\ scr' = [scr EXCEPT ![w] = IF r.raised THEN [live |-> FALSE, current_url |-> Null]
                                 ELSE [live |-> TRUE, current_url |-> r.current_url]]
    /\ lastOp' = [op |-> "open",
                  mode |-> IF ~Falsy(start_url) THEN "start_url"
                           ELSE IF ~Falsy(manufacturer_id) THEN "search" ELSE "default",
                  first |-> first, retry |-> retry, raised |-> r.raised,
                  drivers |-> r.drivers, quits |-> r.quits, gets |-> r.gets]
    /\ nops' = nops + 1
    /\ UNCHANGED tables

\* A client constructs a scraper.
Open(w, start_url, manufacturer_id, first, retry) ==
    Opened(w, start_url, manufacturer_id, first, retry,
           open(start_url, manufacturer_id, first, retry))

Checked(w, args, wait, body, r) ==
    /\ scr' = [scr EXCEPT ![w].current_url = r.current_url]
    /\ lastOp' = [op |-> "checkCompatibility", args |-> args, wait |-> wait, body |-> body,
                  raised |-> r.raised, ret |-> r.ret, gets |-> r.gets,
                  before |-> scr[w].current_url, after |-> r.current_url]
    /\ nops' = nops + 1
    /\ UNCHANGED tables

\* A client calls checkCompatibility(args[1], args[2]) on a live session.
CheckCompatibility(w, args, wait, body) ==
    /\ scr[w].live
    /\ Checked(w, args, wait, body,
               checkCompatibility(scr[w].current_url, args[1], args[2], wait, body))

Clicked(w, url, reset_soup, found, first, second, r) ==
    /\ scr' = [scr EXCEPT ![w].current_url = IF reset_soup THEN url ELSE @]
    /\ lastOp' = [op |-> "click", found |-> found, first |-> first, second |-> second,
                  raised |-> r.raised, ret |-> r.ret, clicks |-> r.clicks, popups |-> r.popups,
                  gets |-> IF reset_soup THEN set_soup(scr[w].current_url, url) ELSE 0]
    /\ nops' = nops + 1
    /\ UNCHANGED tables

\* A client calls click(url, css_path, reset_soup, condition) on a live session.
Click(w, url, reset_soup, found, first, second) ==
    /\ scr[w].live
    /\ Clicked(w, url, reset_soup, found, first, second, click(found, first, second))

NextSession ==
    \/ \E w \in {"w1"}, s \in StartUrls, m \in SearchIds, first \in NavOutcomes,
          retry \in NavOutcomes :
           nops < MaxSessionOps /\ Open(w, s, m, first, retry)
    \/ \E w \in {"w1"}, args \in CompatArgs, wait \in { "ok", "timeout" }, body \in Bodies :
           nops < MaxSessionOps /\ CheckCompatibility(w, args, wait, body)
    \/ \E w \in {"w1"}, url \in { PageUrl, TextV(base_url) }, reset_soup \in BOOLEAN,
          found \in { "absent", "rejected", "accepted" },
          first \in { "ok", "intercepted", "not_interactable", "stale", "other" },
          second \in { "ok", "fail" } :
           nops < MaxSessionOps /\ Click(w, url, reset_soup, found, first, second)

SpecSession == InitSession /\ [][NextSession]_vars

\* An id that carries the vendor prefix.
CarriesPS(id) == Len(id) >= 2 /\ id[1] = "P" /\ id[2] = "S"

\* C13: checkCompatibility called with a part id carrying the PS prefix as
\* first argument and a model id as second argument, the endpoint answering
\* with the match code, returns true and leaves the session where it was.
C13_CompatibilityRoundTrip ==
    ( /\ lastOp.op = "checkCompatibility"
      /\ CarriesPS(lastOp.args[1])
      /\ ~CarriesPS(lastOp.args[2])
      /\ lastOp.wait = "ok"
      /\ lastOp.body = [k |-> "json", compatibilityCheckResult |-> MATCH] )
        => /\ lastOp.raised = "none"
           /\ lastOp.ret = TRUE
           /\ lastOp.after = lastOp.before

C15_SideTripRestores ==
    (lastOp.op = "checkCompatibility" /\ lastOp.raised # "ValueError")
        => /\ lastOp.after = lastOp.before
           /\ scr["w1"].current_url = lastOp.before

\* C16: in each of the three open modes, a session crash on the first
\* navigation makes the scraper quit the driver, create exactly one new
\* driver and navigate again; the failure propagates only if that second
\* navigation fails too.
C16_RecoveryOnOpen ==
    (lastOp.op = "open" /\ lastOp.first = "crash")
        => /\ lastOp.quits = 1
           /\ lastOp.drivers = 2
           /\ lastOp.gets = 2
           /\ lastOp.raised = (lastOp.retry = "crash")

\* C17: click returns False without raising when the element is absent,
\* when the condition rejects it, or when the click is intercepted and the
\* retry fails too; a call makes at most two click attempts and at most one
\* popup dismissal, and returns True only if a click attempt succeeded.
C17_ClickOutcome ==
    lastOp.op = "click"
        => /\ ( \/ lastOp.found \in { "absent", "rejected" }
                \/ ( /\ lastOp.first \in { "intercepted", "not_interactable" }
                     /\ lastOp.second = "fail" ) )
               => (lastOp.ret = FALSE /\ ~lastOp.raised)
           /\ lastOp.clicks <= 2
           /\ lastOp.popups <= 1
           /\ (lastOp.ret = TRUE)
               => /\ lastOp.found = "accepted"
                  /\ \/ lastOp.first = "ok" /\ lastOp.clicks = 1
                     \/ lastOp.second = "ok" /\ lastOp.clicks = 2

\* C17 witness: an intercepted click whose retry after the popup dismissal
\* failed as well.
C17_Witness ==
    /\ lastOp.op = "click"
    /\ lastOp.found = "accepted"
    /\ lastOp.first = "intercepted"
    /\ lastOp.second = "fail"
    /\ lastOp.ret = FALSE
    /\ lastOp.clicks = 2
    /\ lastOp.popups = 1

-----------------------------------------------------------------------------
(* AbstractScraper.click_all, one loop iteration per step.  The page shows *)
(* a sequence of elements that match the selector; each has the verdict    *)
(* the condition gives it and what a click on it does: "remove" (the       *)
(* element is gone from the next find_elements), "stay" (the match set is  *)
(* the same after the click) or "raise" (click() raises).  The instance    *)
(* is at pc "idle", "loop" or "done"; iter is the parity of the number of  *)
(* clicks made, so that an iteration is never a stuttering step.           *)

\* Calls of click_all in one behaviour of SpecClickAll.
MaxClickAlls == 2

\* Elements on a page when click_all is called.
MaxElements == 2

ElementKinds == [ok : BOOLEAN, onclick : { "remove", "stay", "raise" }]

ClickPages == UNION { [1..n -> ElementKinds] : n \in 0..MaxElements }

\* elements = [el for el in elements if condition(el)], as positions
Matching(elems, hasCondition) ==
    { j \in 1..Len(elems) : ~hasCondition \/ elems[j].ok }

FirstMatch(elems, hasCondition) ==
    CHOOSE j \in Matching(elems, hasCondition) :
        \A h \in Matching(elems, hasCondition) : j <= h

Without(elems, j) == SubSeq(elems, 1, j - 1) \o SubSeq(elems, j + 1, Len(elems))

InitClickAll ==
    /\ parts = <<>>
    /\ models = <<>>
    /\ part_replacements = <<>>
    /\ part_reviews = <<>>
    /\ part_review_stories = <<>>
    /\ part_qna = <<>>
    /\ scr = [w \in {"w1"} |-> [pc |-> "idle", elems |-> <<>>, hasCondition |-> FALSE,
                                iter |-> 0]]
    /\ lastOp = [op |-> "init"]
    /\ nops = 0

\* click_all(url, css_path, condition) is called on a page.
ClickAllStart(w, page, hasCondition) ==
    /\ scr[w].pc # "loop"
    /\ scr' = [scr EXCEPT ![w] = [pc |-> "loop", elems |-> page,
                                  hasCondition |-> hasCondition, iter |-> 0]]
    /\ lastOp' = [op |-> "click_all", page |-> page, hasCondition |-> hasCondition,
                  raised |-> FALSE]
    /\ nops' = nops + 1
    /\ UNCHANGED tables

\* elements[0].click() on the element at position j, then the page is
\* parsed again.
ClickFirst(w, j) ==
    CASE scr[w].elems[j].onclick = "remove" ->
            /\ scr' = [scr EXCEPT ![w].elems = Without(@, j), ![w].iter = 1 - @]
            /\ UNCHANGED lastOp
      [] scr[w].elems[j].onclick = "stay" ->
            /\ scr' = [scr EXCEPT ![w].iter = 1 - @]
            /\ UNCHANGED lastOp
      [] OTHER ->
            /\ scr' = [scr EXCEPT ![w].pc = "done"]
            /\ lastOp' = [lastOp EXCEPT !.raised = TRUE]

\* One pass of the while True loop: break when nothing matches, else click
\* the first match and go round again.
ClickAllStep(w) ==
    /\ scr[w].pc = "loop"
    /\ IF Matching(scr[w].elems, scr[w].hasCondition) = {}
       THEN /\ scr' = [scr EXCEPT ![w].pc = "done"]
            /\ UNCHANGED lastOp
       ELSE ClickFirst(w, FirstMatch(scr[w].elems, scr[w].hasCondition))
    /\ UNCHANGED << tables, nops >>

NextClickAll ==
    \/ \E w \in {"w1"}, page \in ClickPages, hasCondition \in BOOLEAN :
           nops < MaxClickAlls /\ ClickAllStart(w, page, hasCondition)
    \/ \E w \in {"w1"} : ClickAllStep(w)

\* The loop runs in the calling thread with nothing to wait for: an
\* iteration that can be taken is taken.
SpecClickAllLive ==
    InitClickAll /\ [][NextClickAll]_vars /\ WF_vars(\E w \in {"w1"} : ClickAllStep(w))

\* C18: click_all always terminates: a call that has entered its loop
\* leaves it, also when a click leaves the set of matching elements
\* unchanged.
C18_ClickAllTerminates ==
    (scr["w1"].pc = "loop") ~> (scr["w1"].pc = "done")

-----------------------------------------------------------------------------
(* scrape_cats.py: CategoryScraper.  A category listing is a sequence of   *)
(* pages, each the sequence of its a.nf__part__detail__title anchors; a    *)
(* page past the end of the listing has none.  An anchor is a record with  *)
(* its href, a text, or Null when the attribute is missing.                *)

SiteRoot == RStrip(base_url, "/")

\* full_url = href if href.startswith("http") else site + href
FullUrl(href) == IF startswith(href, <<"h", "t", "t", "p">>) THEN href ELSE SiteRoot \o href

\* The loop of get_page_links over the anchors: those without href are
\* skipped.
RECURSIVE AnchorLinks(_)
AnchorLinks(elements) ==
    IF elements = <<>> THEN <<>>
    ELSE IF Falsy(Head(elements).href)
         THEN AnchorLinks(Tail(elements))
         ELSE << FullUrl(Head(elements).href.v) >> \o AnchorLinks(Tail(elements))

\* get_page_links(page_number): a new session, then the anchors of the
\* page at url (page 1) or url/?start=N.
get_page_links(listing, page_number) ==
    IF page_number <= Len(listing) THEN AnchorLinks(listing[page_number]) ELSE <<>>

\* scrape_category_links, entered at page_number with all_links: the links
\* returned and the number of listing pages fetched.
CategoryLoopOnePage(listing, page_number, all_links) ==
    [links |-> get_page_links(listing, 1), fetches |-> 1]

RECURSIVE CategoryLoop(_, _, _)
CategoryLoop(listing, page_number, all_links) ==
    IF get_page_links(listing, page_number) = <<>>
    THEN [links |-> all_links, fetches |-> page_number]
    ELSE CategoryLoop(listing, page_number + 1,
                      all_links \o get_page_links(listing, page_number))

scrape_category_links(listing) == CategoryLoop(listing, 1, <<>>)

\* Pages of a category listing in SpecCategory, and the pages they are
\* made of: empty, one relative link, a relative and an absolute link, an
\* anchor without href.
MaxPages == 4

Anchor(href) == [href |-> href]

CategoryPages ==
    { <<>>,
      << Anchor(TextV(<<"/", "a">>)) >>,
      << Anchor(TextV(<<"/", "b">>)), Anchor(TextV(<<"h", "t", "t", "p", "c">>)) >>,
      << Anchor(Null) >> }

CategoryListings == UNION { [1..n -> CategoryPages] : n \in 0..MaxPages }

\* Calls of scrape_category_links in one behaviour of SpecCategory.
MaxCategoryRuns == 1

InitCategory ==
    /\ parts = <<>>
    /\ models = <<>>
    /\ part_replacements = <<>>
    /\ part_reviews = <<>>
    /\ part_review_stories = <<>>
    /\ part_qna = <<>>
    /\ scr = [w \in {"w1"} |-> [sessions |-> 0]]
    /\ lastOp = [op |-> "init"]
    /\ nops = 0

\* CategoryScraper(url).scrape_category_links() on a listing; every
\* get_page_links call opens a session of its own.
ScrapeCategory(w, listing) ==
    /\ scr' = [scr EXCEPT ![w].sessions = scrape_category_links(listing).fetches]
    /\ lastOp' = [op |-> "scrape_category_links", listing |-> listing,
                  links |-> scrape_category_links(listing).links,
                  fetches |-> scrape_category_links(listing).fetches]
    /\ nops' = nops + 1
    /\ UNCHANGED tables

NextCategory ==
    \E w \in {"w1"}, listing \in CategoryListings :
        nops < MaxCategoryRuns /\ ScrapeCategory(w, listing)

SpecCategory == InitCategory /\ [][NextCategory]_vars

\* The hrefs a page shows, made absolute.
ShownLinks(page) ==
    LET kept == SelectSeq(page, LAMBDA a : ~IsNull(a.href) /\ a.href.v # <<>>)
    IN  [j \in 1..Len(kept) |->
            IF Len(kept[j].href.v) >= 4 /\ SubSeq(kept[j].href.v, 1, 4) = <<"h", "t", "t", "p">>
            THEN kept[j].href.v ELSE <<"B">> \o kept[j].href.v]

\* The number of non-empty pages a listing starts with.
LeadingPages(listing) ==
    CHOOSE n \in 0..Len(listing) :
        /\ \A p \in 1..n : ShownLinks(listing[p]) # <<>>
        /\ n < Len(listing) => ShownLinks(listing[n + 1]) = <<>>

RECURSIVE LinksUpTo(_, _)
LinksUpTo(listing, n) ==
    IF n = 0 THEN <<>> ELSE LinksUpTo(listing, n - 1) \o ShownLinks(listing[n])

\* C19: for a listing with n non-empty pages followed by an empty page,
\* scrape_category_links returns exactly the links of pages 1..n in page
\* order, nothing of later pages, and fetches exactly n + 1 listing pages.
C19_CategoryPagination ==
    lastOp.op = "scrape_category_links"
        => /\ lastOp.links = LinksUpTo(lastOp.listing, LeadingPages(lastOp.listing))
           /\ lastOp.fetches = LeadingPages(lastOp.listing) + 1

\* C19 witness: three pages of items, an empty page, and a page of items
\* after it: four fetches, and the links of the first three pages.
C19_Witness ==
    /\ lastOp.op = "scrape_category_links"
    /\ Len(lastOp.listing) = 4
    /\ LeadingPages(lastOp.listing) = 3
    /\ lastOp.fetches = 4
    /\ Len(lastOp.links) >= 3

-----------------------------------------------------------------------------
(* The lists the section scrapers return, and what a failing page leaves.  *)

SectionKey(section) ==
    CASE section = "reviews" -> "review_id"
      [] section = "stories" -> "story_id"
      [] section = "questions" -> "qna_id"

SectionTable(section) ==
    CASE section = "reviews" -> part_reviews
      [] section = "stories" -> part_review_stories
      [] section = "questions" -> part_qna

\* C21: the list one run of _scrape_reviews, _scrape_stories or
\* _scrape_questions returns holds no two records with the same id.
C21_InRunDedup ==
    (lastOp.op \in { "reviews", "stories", "questions" } /\ ~lastOp.raised)
        => \A n, m \in 1..Len(lastOp.ret) :
               lastOp.ret[n][SectionKey(lastOp.op)] = lastOp.ret[m][SectionKey(lastOp.op)]
                   => n = m

\* C22: when a page after the first fails in a run of a section scraper,
\* the records the run had collected from the pages before it (lastOp.ret
\* of a run that raised) are in the section's table.
C22_PartialKept ==
    (lastOp.op \in { "reviews", "stories", "questions" } /\ lastOp.raised)
        => \A n \in 1..Len(lastOp.ret) :
               Matches(SectionTable(lastOp.op), SectionKey(lastOp.op),
                       lastOp.ret[n][SectionKey(lastOp.op)]) # {}

-----------------------------------------------------------------------------
(* scrape_cats.main: the categories of the sitemap are scraped one after   *)
(* the other; the part links of a category are handed to a process pool,   *)
(* one process_part call per link, and the results are collected in the    *)
(* order the workers complete.                                             *)

\* The job name a unit of scrape_cats would be recorded under.
BatchJob == <<"s", "c", "r", "a", "p", "e", "_", "c", "a", "t", "s">>

\* process_part(link) when the body of its try block ends with outcome.
process_part_unguarded(link, outcome) ==
    IF outcome = "ok"
    THEN [k |-> "Success", link |-> link]
    ELSE [k |-> "raise", link |-> link]

process_part(link, outcome) ==
    IF outcome = "ok"
    THEN [k |-> "Success", link |-> link]
    ELSE [k |-> "Error", link |-> link]

\* Outcomes of PartScraper(db).new(url=link).scrape_all() in a worker.
WorkerOutcomes == { "ok", "Exception" }

\* Categories one run of main is given, and what their sites answer: a
\* listing of pages, or a browser session that cannot be started.
MaxCategories == 2

CategoryDown == [k |-> "down"]

CategorySite(listing) == [k |-> "site", listing |-> listing]

BatchCategories ==
    { CategoryDown,
      CategorySite(<<>>),
      CategorySite(<< << Anchor(TextV(<<"/", "a">>)) >> >>),
      CategorySite(<< << Anchor(TextV(<<"/", "a">>)), Anchor(TextV(<<"/", "b">>)) >> >>),
      CategorySite(<< << Anchor(TextV(<<"/", "a">>)) >>, << Anchor(TextV(<<"/", "c">>)) >> >>) }

RECURSIVE SeqsUpTo(_, _)
SeqsUpTo(S, n) ==
    IF n = 0 THEN { <<>> }
    ELSE SeqsUpTo(S, n - 1)
         \cup { Append(q, x) : q \in { p \in SeqsUpTo(S, n - 1) : Len(p) = n - 1 }, x \in S }

\* Runs of main in one behaviour of SpecBatch.
MaxBatchRuns == 1

InitBatch ==
    /\ parts = <<>>
    /\ models = <<>>
    /\ part_replacements = <<>>
    /\ part_reviews = <<>>
    /\ part_review_stories = <<>>
    /\ part_qna = <<>>
    /\ scr = [w \in {"w1"} |->
                [pc |-> "idle", todo |-> <<>>, links |-> <<>>, pending |-> {},
                 outcomes |-> <<>>, results |-> <<>>, failed_urls |-> {}]]
    /\ lastOp = [op |-> "init"]
    /\ nops = 0

\* main up to the for loop: the category urls are read from the sitemap;
\* without any, main returns.
MainStart(w, category_urls) ==
    /\ scr[w].pc = "idle"
    /\ scr' = [scr EXCEPT ![w].pc = IF category_urls = <<>> THEN "done" ELSE "category",
                          ![w].todo = category_urls]
    /\ lastOp' = [op |-> "main", categories |-> Len(category_urls)]
    /\ nops' = nops + 1
    /\ UNCHANGED tables

\* One pass of the for loop up to the submission of the links: the
\* category's links are scraped; CategoryScraper.get_page_links starts a
\* browser session with no handler around it; without links main returns;
\* otherwise every link is submitted to the pool.
CategoryStart(w) ==
    /\ scr[w].pc = "category"
    /\ scr[w].todo # <<>>
    /\ scr' = [scr EXCEPT
          ![w].pc = CASE scr[w].todo[1] = CategoryDown -> "raised"
                      [] scrape_category_links(scr[w].todo[1].listing).links = <<>> -> "done"
                      [] OTHER -> "pool",
          ![w].links = IF scr[w].todo[1] = CategoryDown THEN <<>>
                       ELSE scrape_category_links(scr[w].todo[1].listing).links,
          ![w].pending = IF scr[w].todo[1] = CategoryDown THEN {}
                         ELSE 1..Len(scrape_category_links(scr[w].todo[1].listing).links),
          ![w].outcomes = <<>>,
          ![w].results = <<>>]
    /\ lastOp' = [op |-> "category", left |-> Len(scr[w].todo)]
    /\ UNCHANGED << tables, nops >>

\* The pass ends when the pool is drained: the next category, or the end
\* of main.
AfterResult(todo, pending, r) ==
    CASE r.k = "raise" -> "raised"
      [] pending # {} -> "pool"
      [] Len(todo) > 1 -> "category"
      [] OTHER -> "done"

\* One turn of the as_completed loop: the worker of unit i ends with
\* outcome, future.result() hands over what process_part returned (or
\* raises what it raised) and the result is appended.
Complete(w, i, outcome) ==
    /\ scr[w].pc = "pool"
    /\ i \in scr[w].pending
    /\ scr' = [scr EXCEPT
          ![w].pc = AfterResult(scr[w].todo, scr[w].pending \ {i},
                                process_part(scr[w].links[i], outcome)),
          ![w].pending = @ \ {i},
          ![w].outcomes = Append(@, [unit |-> i, outcome |-> outcome]),
          ![w].results =
              IF process_part(scr[w].links[i], outcome).k = "raise" THEN @
              ELSE Append(@, [unit |-> i, text |-> process_part(scr[w].links[i], outcome)]),
          ![w].todo =
              IF scr[w].pending = {i} /\ process_part(scr[w].links[i], outcome).k # "raise"
              THEN Tail(@) ELSE @]
    /\ lastOp' = [op |-> "result", unit |-> i, outcome |-> outcome]
    /\ UNCHANGED << tables, nops >>

NextBatch ==
    \/ \E w \in {"w1"}, category_urls \in SeqsUpTo(BatchCategories, MaxCategories) :
           nops < MaxBatchRuns /\ MainStart(w, category_urls)
    \/ \E w \in {"w1"} : CategoryStart(w)
    \/ \E w \in {"w1"}, i \in 1..MaxElements, outcome \in WorkerOutcomes :
           Complete(w, i, outcome)

SpecBatch == InitBatch /\ [][NextBatch]_vars

\* The results of unit i of the pool at hand.
ResultsOf(w, i) == { n \in 1..Len(scr[w].results) : scr[w].results[n].unit = i }

\* C23: in the pool of a category no result is raised into main; every
\* unit whose worker has ended has exactly one result, Success when the
\* scrape went through and Error when it raised; once the pool is drained
\* every submitted link has its result.
C23_SiblingIsolation ==
    /\ (scr["w1"].pc = "raised" => lastOp.op = "category")
    /\ \A n \in 1..Len(scr["w1"].outcomes) :
           /\ Cardinality(ResultsOf("w1", scr["w1"].outcomes[n].unit)) = 1
           /\ \A m \in ResultsOf("w1", scr["w1"].outcomes[n].unit) :
                  /\ scr["w1"].results[m].text.link = scr["w1"].links[scr["w1"].outcomes[n].unit]
                  /\ scr["w1"].results[m].text.k =
                        (IF scr["w1"].outcomes[n].outcome = "ok" THEN "Success" ELSE "Error")
    /\ (lastOp.op = "result" /\ scr["w1"].pending = {})
           => \A i \in 1..Len(scr["w1"].links) : Cardinality(ResultsOf("w1", i)) = 1

\* C23 witness: a pool of two links is drained, the first worker to end
\* raised and the other one succeeded after it.
C23_Witness ==
    /\ lastOp.op = "result"
    /\ scr["w1"].pending = {}
    /\ Len(scr["w1"].links) = 2
    /\ Len(scr["w1"].results) = 2
    /\ scr["w1"].outcomes[1].outcome = "Exception"
    /\ scr["w1"].outcomes[2].outcome = "ok"

\* C24: every unit of the pool whose worker raised has its link in the
\* failed_urls ledger under the job's name.
C24_FailedUnitsInLedger ==
    \A n \in 1..Len(scr["w1"].outcomes) :
        scr["w1"].outcomes[n].outcome # "ok"
            => << BatchJob, scr["w1"].links[scr["w1"].outcomes[n].unit] >>
                   \in scr["w1"].failed_urls

\* C25: when main has ended, by return or by an exception, no category is
\* left unprocessed.
C25_BatchNeverAborted ==
    scr["w1"].pc \in { "done", "raised" } => scr["w1"].todo = <<>>

-----------------------------------------------------------------------------
(* The scrapy crawl: the spiders model_gatherer and model_processor, and   *)
(* the pipeline SQLStorePipeline with its failed_urls ledger.  The         *)
(* pipeline stores into the file scraper_data.sqlite; the spiders'         *)
(* start_requests read the file scraped_data.sqlite, which no code of the  *)
(* repository writes: its content is what the operator left there.         *)

\* URLs of the site: a models list page, a model's main page, a model's
\* parts page; moved marks the address a redirect leads to, and query holds
\* the n of every "?start=n" a callback has appended to the address.
ListUrl(page) ==
    [site |-> "list", id |-> "Dishwasher", start |-> page, moved |-> FALSE, query |-> <<>>]

ModelUrl(id) == [site |-> "model", id |-> id, start |-> 1, moved |-> FALSE, query |-> <<>>]

PartsUrl(model_url) ==
    [site |-> "parts", id |-> model_url.id, start |-> 1, moved |-> FALSE, query |-> <<>>]

Moved(url) == [url EXCEPT !.moved = TRUE]

LedgerRow(spider, url) == [spider |-> spider, url |-> url]

FailedURLItem(spider_name, url, remove) ==
    [k |-> "FailedURLItem", spider_name |-> spider_name, url |-> url, remove |-> remove]

GatherItem(url) == [k |-> "GatherItem", spider_name |-> "", url |-> url, remove |-> FALSE]

ModelProcessorItem(model_url, parts_list) ==
    [k |-> "ModelProcessorItem", spider_name |-> "", url |-> model_url, remove |-> FALSE,
     parts |-> parts_list]

\* INSERT OR IGNORE INTO failed_urls under UNIQUE(spider, url).
InsertAlways(rows, row) == Append(rows, row)

InsertOrIgnore(rows, row) ==
    IF \E n \in 1..Len(rows) : rows[n] = row THEN rows ELSE Append(rows, row)

\* DELETE FROM failed_urls WHERE spider=? AND url=?
DeleteRow(rows, row) == SelectSeq(rows, LAMBDA r : r # row)

save_failed_url_item(db, item) ==
    [db EXCEPT !.failed_urls =
        IF item.remove
        THEN DeleteRow(@, LedgerRow(item.spider_name, item.url))
        ELSE InsertOrIgnore(@, LedgerRow(item.spider_name, item.url))]

process_item(db, item) ==
    CASE item.k = "GatherItem" ->
             [db EXCEPT !.gather_items = @ \cup { item.url }]
      [] item.k = "ModelProcessorItem" ->
             [db EXCEPT !.model_processor_items = @ \cup { item.url }]
      [] item.k = "FailedURLItem" -> save_failed_url_item(db, item)

RECURSIVE ProcessItems(_, _)
ProcessItems(db, items) ==
    IF items = <<>> THEN db
    ELSE ProcessItems(process_item(db, Head(items)), Tail(items))

\* open_spider on a new file.
EmptyStore == [failed_urls |-> <<>>, gather_items |-> {}, model_processor_items |-> {}]

\* The file the spiders read: without the tables, or with rows.
NoTables == [k |-> "absent", failed_urls |-> {}, gather_items |-> {}]

ReadFile(failed, gathered) == [k |-> "file", failed_urls |-> failed, gather_items |-> gathered]

ReadFiles ==
    { NoTables,
      ReadFile({ LedgerRow("model_gatherer", ListUrl(1)) }, {}),
      ReadFile({ LedgerRow("model_processor", ModelUrl("M1")) }, { ModelUrl("M1") }) }

\* A request with its meta: model_url, page_index and the parts of
\* partial_item.
Request(url, callback, errback, model_url, page_index) ==
    [url |-> url, callback |-> callback, errback |-> errback,
     model_url |-> model_url, page_index |-> page_index, parts |-> <<>>]

\* start_requests of the two spiders: the request urls.
RequestUrls(spider, was_missed, file) ==
    CASE was_missed ->
             { r.url : r \in { x \in file.failed_urls : x.spider = spider } }
      [] spider = "model_gatherer" -> { ListUrl(1) }
      [] OTHER -> file.gather_items

start_requests(spider, was_missed, file) ==
    IF (was_missed \/ spider = "model_processor") /\ file.k = "absent"
    THEN [raised |-> TRUE, requests |-> {}]
    ELSE [raised |-> FALSE,
          requests |-> { Request(u, IF spider = "model_gatherer" THEN "parse"
                                    ELSE "parse_model_main", TRUE, u, 1) :
                         u \in RequestUrls(spider, was_missed, file) }]

\* The model links a models list page shows.
ListedModels == << ModelUrl("M1") >>

\* Pages of a model's parts listing.
MaxPartsPages == 3

\* The div.mega-m__part blocks of page k of a parts listing: one part, and
\* on page 2 one more that is "No Longer Available".
PartDiv(n, available) == [part_select_num |-> n, available |-> available]

PartDivs(k) ==
    IF k = 2 THEN << PartDiv(k, TRUE), PartDiv(k + MaxPartsPages, FALSE) >>
    ELSE << PartDiv(k, TRUE) >>

\* The pages the site may serve for a url: page 1 for the bare address,
\* page n for one "?start=n", and any page for an address with more than
\* one "?start=" appended, which is no address of the site.
ServedPages(url) ==
    IF url.query = <<>> THEN {1}
    ELSE IF Len(url.query) = 1 THEN { url.query[1] }
    ELSE 1..MaxPartsPages

\* The callbacks: the items and the requests they yield for a response at
\* response_url to the request req.
RemoveOnRetry(spider, was_missed, response_url) ==
    IF was_missed THEN << FailedURLItem(spider, response_url, TRUE) >> ELSE <<>>

parse(was_missed, req, response_url) ==
    [items |-> RemoveOnRetry("model_gatherer", was_missed, response_url)
               \o [n \in 1..Len(ListedModels) |-> GatherItem(ListedModels[n])],
     requests |-> {}]

parse_model_main(was_missed, req, response_url) ==
    [items |-> RemoveOnRetry("model_processor", was_missed, response_url),
     requests |-> { Request(PartsUrl(req.model_url), "parse_parts_page", FALSE,
                            req.model_url, 1) }]

\* The parts parse_parts_page appends for the blocks of a page.
PartsOf(part_divs) == SelectSeq(part_divs, LAMBDA div : div.available)

parse_parts_page(req, response_url, last_page, part_divs) ==
    IF req.page_index < last_page
    THEN [items |-> <<>>,
          requests |-> { [Request([response_url EXCEPT
                                      !.query = Append(@, req.page_index + 1)],
                                  "parse_parts_page", FALSE, req.model_url,
                                  req.page_index + 1)
                            EXCEPT !.parts = req.parts \o PartsOf(part_divs)] }]
    ELSE [items |-> << ModelProcessorItem(req.model_url, req.parts \o PartsOf(part_divs)) >>,
          requests |-> {}]

errback_failure(spider, req) ==
    [items |-> IF req.errback THEN << FailedURLItem(spider, req.url, FALSE) >> ELSE <<>>,
     requests |-> {}]

\* What the engine does with a request whose download ended with outcome.
Handle(spider, was_missed, req, outcome, last_page, part_divs) ==
    CASE outcome = "failed" -> errback_failure(spider, req)
      [] req.callback = "parse" ->
             parse(was_missed, req, IF outcome = "moved" THEN Moved(req.url) ELSE req.url)
      [] req.callback = "parse_model_main" ->
             parse_model_main(was_missed, req,
                              IF outcome = "moved" THEN Moved(req.url) ELSE req.url)
      [] OTHER ->
             parse_parts_page(req, IF outcome = "moved" THEN Moved(req.url) ELSE req.url,
                              last_page, part_divs)

DownloadOutcomes == { "ok", "moved", "failed" }

SpiderNames == { "model_gatherer", "model_processor" }

\* Crawls in one behaviour of SpecCrawl.
MaxCrawls == 2

InitCrawl ==
    /\ parts = <<>>
    /\ models = <<>>
    /\ part_replacements = <<>>
    /\ part_reviews = <<>>
    /\ part_review_stories = <<>>
    /\ part_qna = <<>>
    /\ \E file \in ReadFiles :
           scr = [w \in {"w1"} |->
                    [pc |-> "idle", spider |-> "", was_missed |-> FALSE, queue |-> {},
                     dispatched |-> {}, scraper_data |-> EmptyStore,
                     scraped_data |-> file]]
    /\ lastOp = [op |-> "init"]
    /\ nops = 0

\* scrapy crawl <spider> -a was_missed=...: open_spider, then start_requests.
CrawlStart(w, spider, was_missed) ==
    /\ scr[w].pc = "idle"
    /\ scr' = [scr EXCEPT
          ![w].pc = "running",
          ![w].spider = spider,
          ![w].was_missed = was_missed,
          ![w].queue = start_requests(spider, was_missed, scr[w].scraped_data).requests,
          ![w].dispatched =
              { r.url : r \in start_requests(spider, was_missed, scr[w].scraped_data).requests }]
    /\ lastOp' = [op |-> "start", spider |-> spider, was_missed |-> was_missed,
                  raised |-> start_requests(spider, was_missed, scr[w].scraped_data).raised,
                  issued |-> { r.url : r \in start_requests(spider, was_missed,
                                                            scr[w].scraped_data).requests },
                  before |-> scr[w].scraper_data.failed_urls]
    /\ nops' = nops + 1
    /\ UNCHANGED tables

\* A request leaves the queue: its download ended (after scrapy's own
\* retries) with outcome; the callback or the errback runs, the items go
\* through the pipeline and the new requests are queued.
Respond(w, req, outcome, last_page, page) ==
    /\ scr[w].pc = "running"
    /\ req \in scr[w].queue
    /\ scr' = [scr EXCEPT
          ![w].queue = (@ \ { req })
              \cup Handle(scr[w].spider, scr[w].was_missed, req, outcome, last_page,
                          PartDivs(page)).requests,
          ![w].scraper_data = ProcessItems(@,
              Handle(scr[w].spider, scr[w].was_missed, req, outcome, last_page,
                     PartDivs(page)).items)]
    /\ lastOp' = [op |-> "response", spider |-> scr[w].spider,
                  was_missed |-> scr[w].was_missed, url |-> req.url,
                  callback |-> req.callback, outcome |-> outcome,
                  before |-> scr[w].scraper_data.failed_urls,
                  model_url |-> req.model_url, page_index |-> req.page_index,
                  last_page |-> last_page,
                  items |-> Handle(scr[w].spider, scr[w].was_missed, req, outcome,
                                   last_page, PartDivs(page)).items,
                  requests |-> Handle(scr[w].spider, scr[w].was_missed, req, outcome,
                                      last_page, PartDivs(page)).requests]
    /\ UNCHANGED << tables, nops >>

\* The queue is empty: close_spider.
CrawlEnd(w) ==
    /\ scr[w].pc = "running"
    /\ scr[w].queue = {}
    /\ scr' = [scr EXCEPT ![w].pc = "idle"]
    /\ lastOp' = [op |-> "close", spider |-> scr[w].spider,
                  was_missed |-> scr[w].was_missed]
    /\ UNCHANGED << tables, nops >>

NextCrawl ==
    \/ \E w \in {"w1"}, spider \in SpiderNames, was_missed \in BOOLEAN :
           nops < MaxCrawls /\ CrawlStart(w, spider, was_missed)
    \/ \E w \in {"w1"} :
           \E req \in scr[w].queue, outcome \in DownloadOutcomes,
              last_page \in 1..MaxPartsPages :
               \E page \in ServedPages(req.url) :
                   Respond(w, req, outcome, last_page, page)
    \/ \E w \in {"w1"} : CrawlEnd(w)

SpecCrawl == InitCrawl /\ [][NextCrawl]_vars

\* The ledger the pipeline writes, and the urls it holds for a spider.
Ledger == scr["w1"].scraper_data.failed_urls

Recorded(rows, spider) ==
    { rows[n].url : n \in { m \in 1..Len(rows) : rows[m].spider = spider } }

Holds(rows, row) == \E n \in 1..Len(rows) : rows[n] = row

\* C26: a was_missed crawl issues a request for exactly the urls the
\* pipeline has recorded in failed_urls under the spider's name.
C26_RetryReadsLedger ==
    (lastOp.op = "start" /\ lastOp.was_missed)
        => lastOp.issued = Recorded(lastOp.before, lastOp.spider)

\* C27: in a was_missed crawl a response to the request of a url of the
\* ledger removes the url's entry, also when it arrives under a redirected
\* address; a request that fails again leaves its entry; no other entry
\* of the ledger changes, and no entry is removed otherwise.
C27_RemovedOnSuccessOnly ==
    (lastOp.op = "response" /\ lastOp.callback # "parse_parts_page")
        => /\ \A n \in 1..Len(lastOp.before) :
                  Holds(Ledger, lastOp.before[n])
                      <=> ~ /\ lastOp.was_missed
                            /\ lastOp.outcome # "failed"
                            /\ lastOp.before[n] = LedgerRow(lastOp.spider, lastOp.url)

\* C28: when a crawl of model_processor has ended, every model url it
\* dispatched is stored as a ModelProcessorItem or is in failed_urls.
C28_AtLeastOnce ==
    (lastOp.op = "close" /\ lastOp.spider = "model_processor")
        => \A u \in scr["w1"].dispatched :
               \/ u \in scr["w1"].scraper_data.model_processor_items
               \/ Holds(Ledger, LedgerRow("model_processor", u))

\* C29: failed_urls holds no pair (spider, url) twice, and the failure of
\* a request whose pair is in the ledger leaves the ledger as it was.
C29_LedgerUnique ==
    /\ \A n, m \in 1..Len(Ledger) : Ledger[n] = Ledger[m] => n = m
    /\ (/\ lastOp.op = "response"
        /\ lastOp.outcome = "failed"
        /\ Holds(lastOp.before, LedgerRow(lastOp.spider, lastOp.url)))
           => Ledger = lastOp.before

\* C29 witness: a request with an errback fails while its pair is in the
\* ledger already.
C29_Witness ==
    /\ lastOp.op = "response"
    /\ lastOp.outcome = "failed"
    /\ lastOp.callback # "parse_parts_page"
    /\ Holds(lastOp.before, LedgerRow(lastOp.spider, lastOp.url))
    /\ Len(Ledger) = 1

-----------------------------------------------------------------------------
(* The catalog tools of agents/my_tools.py, as the agent calls them: what  *)
(* a call returns or raises, given how the scrape underneath ends.         *)

ToolReturn(s) == [raised |-> FALSE, exc |-> "", ret |-> s]

ToolRaise(e) == [raised |-> TRUE, exc |-> e, ret |-> ""]

\* Python's binding of a call with n positional arguments and the keyword
\* arguments kw to a function with the parameters params, all required but
\* those in optional.
Binds(params, optional, n, kw) ==
    /\ n <= Len(params)
    /\ kw \subseteq { params[j] : j \in (n + 1)..Len(params) }
    /\ \A j \in (n + 1)..Len(params) : params[j] \in kw \cup optional

\* The methods the tools call, as they are declared.
ModelScraperNew == [params |-> <<"model_id">>, optional |-> {}]

PartScraperNew == [params |-> <<"url", "manufacturer_id">>,
                   optional |-> { "url", "manufacturer_id" }]

SymptomScraperNew == [params |-> <<"url">>, optional |-> {}]

CheckCompatibilityFn == [params |-> <<"self", "model_id", "part_select_id">>, optional |-> {}]

\* A call of a method: TypeError when the arguments do not bind, else the
\* outcome of its body.
CallOf(sig, n, kw, body) ==
    IF Binds(sig.params, sig.optional, n, kw) THEN body ELSE "TypeError"

\* PartScraper.new(manufacturer_id=...) and SymptomScraper.new(url=...)
\* raise ValueError on an empty argument; otherwise the scrape decides.
BodyOf(arg, scrape) == IF arg = "" THEN "ValueError" ELSE scrape

get_part_by_id(manufacturer_id, scrape) ==
    CASE CallOf(PartScraperNew, 0, { "manufacturer_id" }, BodyOf(manufacturer_id, scrape)) = "ok"
             -> ToolReturn("str(part_scraper)")
      [] CallOf(ModelScraperNew, 0, { "manufacturer_id" }, BodyOf(manufacturer_id, scrape)) = "ok"
             -> ToolReturn("str(model_scraper)")
      [] OTHER -> ToolReturn("INVALID PART ID")

get_appliance_by_id(manufacturer_id, scrape) ==
    IF CallOf(ModelScraperNew, 0, { "manufacturer_id" }, BodyOf(manufacturer_id, scrape)) = "ok"
    THEN ToolReturn("str(model_scraper)")
    ELSE ToolReturn("INVALID APPLIANCE ID")

search_parts_of_an_appliance(appliance_id, scrape) ==
    IF CallOf(ModelScraperNew, 0, { "manufacturer_id" }, BodyOf(appliance_id, scrape)) = "ok"
    THEN ToolReturn("search_parts(query)")
    ELSE ToolRaise(CallOf(ModelScraperNew, 0, { "manufacturer_id" },
                          BodyOf(appliance_id, scrape)))

\* PartScraper.checkCompatibility(part_id, appliance_id): the function is
\* taken from the class, so the two arguments are all it is given.
check_model_part_compatibility(part_id, scrape) ==
    CASE CallOf(CheckCompatibilityFn, 2, {}, scrape) = "ok" -> ToolReturn("true")
      [] CallOf(CheckCompatibilityFn, 2, {}, scrape) = "no" -> ToolReturn("false")
      [] OTHER -> ToolRaise(CallOf(CheckCompatibilityFn, 2, {}, scrape))

scrape_model_symptoms(url, scrape) ==
    IF CallOf(SymptomScraperNew, 0, { "url" }, BodyOf(url, scrape)) = "ok"
    THEN ToolReturn("symptoms_string")
    ELSE ToolRaise(CallOf(SymptomScraperNew, 0, { "url" }, BodyOf(url, scrape)))

CallTool(tool, arg, scrape) ==
    CASE tool = "get_part_by_id" -> get_part_by_id(arg, scrape)
      [] tool = "get_appliance_by_id" -> get_appliance_by_id(arg, scrape)
      [] tool = "search_parts_of_an_appliance" -> search_parts_of_an_appliance(arg, scrape)
      [] tool = "check_model_part_compatibility" -> check_model_part_compatibility(arg, scrape)
      [] tool = "scrape_model_symptoms" -> scrape_model_symptoms(arg, scrape)

\* Arguments the agent passes, and the ways the scrape underneath ends.
ToolArgs == { "", "PS1", "M1" }

ScrapeOutcomes == { "ok", "WebDriverException" }

\* Tool calls in one behaviour of SpecTools.
MaxToolCalls == 2

InitTools ==
    /\ parts = <<>>
    /\ models = <<>>
    /\ part_replacements = <<>>
    /\ part_reviews = <<>>
    /\ part_review_stories = <<>>
    /\ part_qna = <<>>
    /\ scr = [w \in {"w1"} |-> [messages |-> <<>>]]
    /\ lastOp = [op |-> "init"]
    /\ nops = 0

\* The agent calls a tool; what comes back is the next tool message of
\* the conversation.
ToolCall(w, tool, arg, scrape) ==
    /\ scr' = [scr EXCEPT ![w].messages = Append(@, CallTool(tool, arg, scrape))]
    /\ lastOp' = [op |-> tool, arg |-> arg, scrape |-> scrape,
                  raised |-> CallTool(tool, arg, scrape).raised,
                  ret |-> CallTool(tool, arg, scrape).ret]
    /\ nops' = nops + 1
    /\ UNCHANGED tables

NextTools ==
    \/ \E w \in {"w1"}, arg \in ToolArgs, scrape \in ScrapeOutcomes :
           nops < MaxToolCalls /\ ToolCall(w, "get_part_by_id", arg, scrape)
    \/ \E w \in {"w1"}, arg \in ToolArgs, scrape \in ScrapeOutcomes :
           nops < MaxToolCalls /\ ToolCall(w, "get_appliance_by_id", arg, scrape)
    \/ \E w \in {"w1"}, arg \in ToolArgs, scrape \in ScrapeOutcomes :
           nops < MaxToolCalls /\ ToolCall(w, "search_parts_of_an_appliance", arg, scrape)
    \/ \E w \in {"w1"}, arg \in ToolArgs, scrape \in ScrapeOutcomes \cup { "no" } :
           nops < MaxToolCalls /\ ToolCall(w, "check_model_part_compatibility", arg, scrape)
    \/ \E w \in {"w1"}, arg \in ToolArgs, scrape \in ScrapeOutcomes :
           nops < MaxToolCalls /\ ToolCall(w, "scrape_model_symptoms", arg, scrape)

SpecTools == InitTools /\ [][NextTools]_vars

ToolNames ==
    { "get_part_by_id", "get_appliance_by_id", "search_parts_of_an_appliance",
      "check_model_part_compatibility", "scrape_model_symptoms" }

\* C30: every call of a catalog tool returns a string and does not raise;
\* when the scrape underneath failed, the string is a failure marker.
C30_ToolsFailAsValues ==
    lastOp.op \in ToolNames
        => /\ ~lastOp.raised
           /\ lastOp.ret # ""
           /\ (lastOp.scrape \notin { "ok", "no" } \/ lastOp.arg = "")
                  => lastOp.ret \in { "INVALID PART ID", "INVALID APPLIANCE ID" }

-----------------------------------------------------------------------------
(* scrape_all with the sections.                                           *)

\* C31: scrape_all(includeComments=True), called on a page that serves every
\* field and records in all three sections while the Store holds no review,
\* story or question, does not raise, runs the three section scrapes and
\* leaves rows in the three tables.
C31_ScrapeAllWithComments ==
    [][(/\ lastOp'.op = "scrape_all"
        /\ lastOp'.comments
        /\ lastOp'.page = PageFull
        /\ part_reviews = <<>>
        /\ part_review_stories = <<>>
        /\ part_qna = <<>>)
           => /\ ~lastOp'.raised
              /\ CalledIn(lastOp'.calls, "_scrape_reviews")
              /\ CalledIn(lastOp'.calls, "_scrape_stories")
              /\ CalledIn(lastOp'.calls, "_scrape_questions")
              /\ part_reviews' # <<>>
              /\ part_review_stories' # <<>>
              /\ part_qna' # <<>>]_vars

-----------------------------------------------------------------------------
(* The browser sessions of one PartScraper instance over its life: the     *)
(* constructor, new() and close().  sessions counts the drivers the        *)
(* instance has created and not quit; current says whether self.driver is  *)
(* one of them.                                                            *)

\* new(url, manufacturer_id) up to the lookup: AbstractScraper.__init__ is
\* called again on the instance; without a target ValueError is raised
\* before any session is touched.
new_session(url, manufacturer_id, first, retry) ==
    IF ~Falsy(url) /\ Falsy(manufacturer_id) THEN open(url, Null, first, retry)
    ELSE IF ~Falsy(manufacturer_id) THEN open(Null, manufacturer_id, first, retry)
    ELSE [raised |-> TRUE, drivers |-> 0, quits |-> 0, gets |-> 0, current_url |-> Null]

\* Operations on the instance in one behaviour of SpecLifecycle.
MaxLifeOps == 4

InitLifecycle ==
    /\ parts = <<>>
    /\ models = <<>>
    /\ part_replacements = <<>>
    /\ part_reviews = <<>>
    /\ part_review_stories = <<>>
    /\ part_qna = <<>>
    /\ scr = [w \in {"w1"} |-> [constructed |-> FALSE, current |-> FALSE, sessions |-> 0]]
    /\ lastOp = [op |-> "init"]
    /\ nops = 0

LifeOp(opname, url, manufacturer_id, first, retry, r) ==
    [op |-> opname, url |-> url, manufacturer_id |-> manufacturer_id,
     first |-> first, retry |-> retry,
     raised |-> r.raised, drivers |-> r.drivers, quits |-> r.quits]

\* PartScraper(db=DB, link=..., manufacturer_id=...): every branch of the
\* constructor runs AbstractScraper.__init__ once.  A constructor that
\* raises leaves no instance.
ConstructScraper(w, link, manufacturer_id, first, retry) ==
    /\ ~scr[w].constructed
    /\ scr[w].sessions = 0
    /\ scr' = [scr EXCEPT
          ![w].constructed = ~open(link, manufacturer_id, first, retry).raised,
          ![w].current = TRUE,
          ![w].sessions = open(link, manufacturer_id, first, retry).drivers
                          - open(link, manufacturer_id, first, retry).quits]
    /\ lastOp' = LifeOp("construct", link, manufacturer_id, first, retry,
                       open(link, manufacturer_id, first, retry))
    /\ nops' = nops + 1
    /\ UNCHANGED tables

\* new(url=..., manufacturer_id=...) on the instance: the driver of the
\* new AbstractScraper.__init__ replaces self.driver, which is not quit.
NewTarget(w, url, manufacturer_id, first, retry) ==
    /\ scr[w].constructed
    /\ scr' = [scr EXCEPT
          ![w].current = @ \/ new_session(url, manufacturer_id, first, retry).drivers > 0,
          ![w].sessions = @ + new_session(url, manufacturer_id, first, retry).drivers
                            - new_session(url, manufacturer_id, first, retry).quits]
    /\ lastOp' = LifeOp("new", url, manufacturer_id, first, retry,
                       new_session(url, manufacturer_id, first, retry))
    /\ nops' = nops + 1
    /\ UNCHANGED tables

\* close(): self.driver.quit(), on the one driver the instance refers to.
CloseScraper(w) ==
    /\ scr[w].constructed
    /\ scr' = [scr EXCEPT ![w].current = FALSE,
                          ![w].sessions = IF scr[w].current THEN @ - 1 ELSE @]
    /\ lastOp' = [op |-> "close", url |-> Null, manufacturer_id |-> Null,
                  first |-> "ok", retry |-> "ok", raised |-> FALSE, drivers |-> 0,
                  quits |-> IF scr[w].current THEN 1 ELSE 0]
    /\ nops' = nops + 1
    /\ UNCHANGED tables

NextLifecycle ==
    \/ \E w \in {"w1"}, s \in StartUrls, m \in SearchIds, first \in NavOutcomes,
          retry \in NavOutcomes :
           nops < MaxLifeOps /\ ConstructScraper(w, s, m, first, retry)
    \/ \E w \in {"w1"}, s \in StartUrls, m \in SearchIds, first \in NavOutcomes,
          retry \in NavOutcomes :
           nops < MaxLifeOps /\ NewTarget(w, s, m, first, retry)
    \/ \E w \in {"w1"} : nops < MaxLifeOps /\ CloseScraper(w)

SpecLifecycle == InitLifecycle /\ [][NextLifecycle]_vars

\* C32: a constructed scraper has at most one live session at any time,
\* and after close() none of the sessions it opened is live.
C32_OneSession ==
    scr["w1"].constructed
        => /\ scr["w1"].sessions <= 1
           /\ lastOp.op = "close" => scr["w1"].sessions = 0

-----------------------------------------------------------------------------
(* Reads of a field the record already holds.                              *)

\* C33: an accessor whose field holds a value in the record (anything but
\* None, the empty result of an earlier scrape included) runs no extraction
\* routine and leaves the record and the Store as they were.
C33_CacheHitLeavesSession ==
    [][(lastOp'.op = "access" /\ ~lastOp'.miss)
           => /\ lastOp'.calls = <<>>
              /\ scr'[lastOp'.inst].item = scr[lastOp'.inst].item
              /\ tables' = tables]_vars

\* The number of calls of routine among calls.
RECURSIVE CallCount(_, _)
CallCount(calls, routine) ==
    IF calls = <<>> THEN 0
    ELSE (IF Head(calls) = routine THEN 1 ELSE 0) + CallCount(Tail(calls), routine)

\* C34: a scrape_all on a record that holds none of fixes,
\* part_replacements and products, and that does not raise, runs
\* _scrape_troubleshooting exactly once.
C34_OneTroubleshootingScrape ==
    [][(/\ lastOp'.op = "scrape_all"
        /\ ~lastOp'.raised
        /\ scr[lastOp'.inst].item # Unset
        /\ Falsy(scr[lastOp'.inst].item["fixes"])
        /\ Falsy(scr[lastOp'.inst].item["part_replacements"])
        /\ Falsy(scr[lastOp'.inst].item["products"]))
           => CallCount(lastOp'.calls, "_scrape_troubleshooting") = 1]_vars

-----------------------------------------------------------------------------
(* The loop of ModelScraper._scrape_part_ids, one pass at a time.  After   *)
(* its last page the site either serves pages without parts or serves the  *)
(* last page again for every larger start value; all pages past the last   *)
(* are then alike, and the page counter is kept up to the first of them.   *)
(* iter alternates from pass to pass, so that a pass is never a            *)
(* stuttering step.                                                        *)

\* Calls of _scrape_part_ids in one behaviour of SpecPartIdsLive.
MaxListingRuns == 2

\* get_items("div.mega-m__part", page_url, parser=_parse_part_block) on a
\* site that repeats its last page, or not.
ServedBlocks(listing, page, repeats) ==
    IF repeats /\ page > Len(listing) /\ listing # <<>>
    THEN PartBlocks(listing, Len(listing))
    ELSE PartBlocks(listing, page)

NextPage(listing, page) == IF page > Len(listing) THEN page ELSE page + 1

InitPartIds ==
    /\ parts = <<>>
    /\ models = <<>>
    /\ part_replacements = <<>>
    /\ part_reviews = <<>>
    /\ part_review_stories = <<>>
    /\ part_qna = <<>>
    /\ scr = [w \in {"w1"} |->
                [pc |-> "idle", listing |-> <<>>, repeats |-> FALSE, page |-> 1,
                 all_ids |-> {}, popup_clicked |-> FALSE, popups |-> 0, iter |-> 0]]
    /\ lastOp = [op |-> "init"]
    /\ nops = 0

\* _scrape_part_ids() is called: page = 1, all_ids = set(), popup_clicked = False.
PartIdsStart(w, listing, repeats) ==
    /\ scr[w].pc # "loop"
    /\ scr' = [scr EXCEPT ![w] = [pc |-> "loop", listing |-> listing, repeats |-> repeats,
                                  page |-> 1, all_ids |-> {}, popup_clicked |-> FALSE,
                                  popups |-> 0, iter |-> 0]]
    /\ lastOp' = [op |-> "_scrape_part_ids", repeats |-> repeats]
    /\ nops' = nops + 1
    /\ UNCHANGED tables

\* One pass of the while True loop on the ids of the page served.
PartIdsPass(w, blocks, ids) ==
    IF blocks = <<>> /\ scr[w].page = 1
    THEN scr' = [scr EXCEPT ![w].pc = "done"]
    ELSE IF ids = <<>> \/ Len(ids) = Cardinality(scr[w].all_ids)
         THEN IF scr[w].popup_clicked
              THEN scr' = [scr EXCEPT ![w].pc = "done",
                                      ![w].all_ids = @ \cup IdSet(ids)]
              ELSE scr' = [scr EXCEPT ![w].all_ids = @ \cup IdSet(ids),
                                      ![w].popup_clicked = TRUE,
                                      ![w].popups = @ + 1,
                                      ![w].page = NextPage(scr[w].listing, @),
                                      ![w].iter = 1 - @]
         ELSE scr' = [scr EXCEPT ![w].all_ids = @ \cup IdSet(ids),
                                 ![w].page = NextPage(scr[w].listing, @),
                                 ![w].iter = 1 - @]

PartIdsStep(w) ==
    /\ scr[w].pc = "loop"
    /\ PartIdsPass(w, ServedBlocks(scr[w].listing, scr[w].page, scr[w].repeats),
                   PageIds(ServedBlocks(scr[w].listing, scr[w].page, scr[w].repeats)))
    /\ UNCHANGED << tables, lastOp, nops >>

NextPartIds ==
    \/ \E w \in {"w1"}, listing \in PartListings, repeats \in BOOLEAN :
           nops < MaxListingRuns /\ PartIdsStart(w, listing, repeats)
    \/ \E w \in {"w1"} : PartIdsStep(w)

\* The loop runs in the calling thread with nothing to wait for: a pass
\* that can be taken is taken.
SpecPartIdsLive ==
    InitPartIds /\ [][NextPartIds]_vars /\ WF_vars(\E w \in {"w1"} : PartIdsStep(w))

\* C35: a call of _scrape_part_ids that has entered its loop leaves it,
\* on a site that serves no parts past its last page and on one that serves
\* its last page again, and dismisses the popup at most once.
C35_PartIdsTerminates ==
    /\ (scr["w1"].pc = "loop") ~> (scr["w1"].pc = "done")
    /\ [](scr["w1"].popups <= 1)

-----------------------------------------------------------------------------
(* The loop of a section scraper, one pass at a time.  A pass parses the   *)
(* page the driver shows, extends the records and `collected`, and clicks  *)
(* "next".  The site serves the pages of `listing`; when `sticky`, its     *)
(* "next" control stays clickable on the last page and a click on it       *)
(* serves the last page again.                                              *)

MaxSectionRuns == 1

\* The records a loop keeps in the model: the first MaxKept of them.
MaxKept == 3

Kept(items) == IF Len(items) > MaxKept THEN SubSeq(items, 1, MaxKept) ELSE items

\* The parse of the current page of a section
PageParsed(section, mid, container) ==
    CASE section = "reviews" -> _parse_current_page_reviews(mid, container)
      [] section = "stories" -> _parse_current_page_stories(mid, container)
      [] section = "questions" -> _parse_qna_page(mid, container)

\* What the end of the loop leaves in the section's table
SectionLoop(section, t, r) ==
    CASE section = "reviews" -> ReviewsLoop(t, r)
      [] section = "stories" -> StoriesLoop(t, r)
      [] section = "questions" -> QuestionsLoop(t, r)

InitSection ==
    /\ parts = <<>>
    /\ models = <<>>
    /\ part_replacements = <<>>
    /\ part_reviews = <<>>
    /\ part_review_stories = <<>>
    /\ part_qna = <<>>
    /\ scr = [w \in {"w1"} |->
                [pc |-> "idle", section |-> "reviews", mid |-> Null, listing |-> << Null >>,
                 sticky |-> FALSE, page |-> 1, collected |-> {}, items |-> <<>>,
                 raised |-> FALSE, iter |-> FALSE, run |-> 0]]
    /\ lastOp = [op |-> "init"]
    /\ nops = 0

\* A section scraper is entered: collected = set(), the list is empty.
SectionStart(w, section, mid, listing, sticky) ==
    /\ scr[w].pc # "loop"
    /\ scr[w].run < MaxSectionRuns
    /\ scr' = [scr EXCEPT ![w] = [pc |-> "loop", section |-> section, mid |-> mid,
                                  listing |-> listing, sticky |-> sticky, page |-> 1,
                                  collected |-> {}, items |-> <<>>, raised |-> FALSE,
                                  iter |-> FALSE, run |-> scr[w].run + 1]]
    /\ lastOp' = [op |-> "start", section |-> section]
    /\ UNCHANGED << tables, nops >>

\* The loop ends: the records are saved when `collected` is not empty.
SectionEnd(w, r) ==
    LET s == scr[w].section
        out == SectionLoop(s, SectionTable(s), r)
    IN  /\ scr' = [scr EXCEPT ![w].pc = "done", ![w].raised = r.raised,
                              ![w].items = r.items, ![w].collected = r.collected]
        /\ part_reviews' = IF s = "reviews" THEN out.table ELSE part_reviews
        /\ part_review_stories' = IF s = "stories" THEN out.table ELSE part_review_stories
        /\ part_qna' = IF s = "questions" THEN out.table ELSE part_qna
        /\ lastOp' = [op |-> "end", section |-> s]
        /\ UNCHANGED << parts, models, part_replacements, nops >>

\* One pass of `while True`: pr is the parse of the page, clicked_next what
\* the click on "next" returns.
SectionPass(w, pr, clicked_next) ==
    LET isin == Len(pr.combined) = 1 /\ pr.combined[1] \in scr[w].collected
        new == IF isin THEN <<>> ELSE pr.items
        more == scr[w].collected \cup { pr.combined[j] : j \in 1..Len(pr.combined) }
        last == Len(scr[w].listing)
    IN  IF pr.raised
        THEN SectionEnd(w, [raised |-> TRUE, items |-> scr[w].items,
                            collected |-> scr[w].collected])
        ELSE IF new = <<>>
        THEN SectionEnd(w, [raised |-> FALSE, items |-> scr[w].items,
                            collected |-> scr[w].collected])
        ELSE IF ~clicked_next
        THEN SectionEnd(w, [raised |-> FALSE, items |-> Kept(scr[w].items \o new),
                            collected |-> more])
        ELSE /\ scr' = [scr EXCEPT ![w].items = Kept(@ \o new), ![w].collected = more,
                                   ![w].page = IF @ < last THEN @ + 1 ELSE @,
                                   ![w].iter = ~@]
             /\ lastOp' = [op |-> "pass", section |-> scr[w].section]
             /\ UNCHANGED << tables, nops >>

SectionStep(w) ==
    /\ scr[w].pc = "loop"
    /\ SectionPass(w, PageParsed(scr[w].section, scr[w].mid, scr[w].listing[scr[w].page]),
                   scr[w].page < Len(scr[w].listing) \/ scr[w].sticky)

NextSection ==
    \/ \E w \in {"w1"}, s \in { "reviews", "stories", "questions" }, mid \in SectionIds,
          l \in Listings, sticky \in BOOLEAN : SectionStart(w, s, mid, l, sticky)
    \/ \E w \in {"w1"} : SectionStep(w)

\* The loop runs in one thread that nothing suspends: a pass that can be
\* taken is taken.
SpecSectionLive ==
    InitSection /\ [][NextSection]_vars /\ WF_vars(\E w \in {"w1"} : SectionStep(w))

\* C36: every run of _scrape_reviews, _scrape_stories and _scrape_questions
\* ends, also on a site whose "next" control stays clickable on the last
\* page and serves that page again.
C36_PaginationTerminates == (scr["w1"].pc = "loop") ~> (scr["w1"].pc = "done")

-----------------------------------------------------------------------------
(* Upserts to one primary key, applied in either order.                    *)

\* C37: a save_part or save_model of row a followed by an upsert of any row
\* b with a's primary key leaves the table that upserting b first and a
\* after it leaves.
C37_ConvergentWrites ==
    [][/\ (lastOp'.op = "save_part" /\ ~IsNull(lastOp'.arg["manufacturer_id"]))
            => \A b \in PartInputs :
                  b["manufacturer_id"] = lastOp'.arg["manufacturer_id"]
                      => save_part(parts', b) = save_part(save_part(parts, b), lastOp'.arg)
       /\ lastOp'.op = "save_model"
            => \A b \in ModelInputs :
                  b["id"] = lastOp'.arg["id"]
                      => save_model(models', b)
                            = save_model(save_model(models, b), lastOp'.arg)]_vars

\* Two rows that give no column two different non-NULL values.
Compatible(a, b, cols) ==
    \A c \in ColSet(cols) : IsNull(a[c]) \/ IsNull(b[c]) \/ a[c] = b[c]

\* C37 (amended): a save_part or save_model of row a followed by an upsert
\* of a row b with a's primary key that gives no column another non-NULL
\* value than a does leaves the table that upserting b first and a after it
\* leaves.
C37_ConvergentCompatibleWrites ==
    [][/\ (lastOp'.op = "save_part" /\ ~IsNull(lastOp'.arg["manufacturer_id"]))
            => \A b \in PartInputs :
                  (/\ b["manufacturer_id"] = lastOp'.arg["manufacturer_id"]
                   /\ Compatible(lastOp'.arg, b, PartCols))
                      => save_part(parts', b) = save_part(save_part(parts, b), lastOp'.arg)
       /\ lastOp'.op = "save_model"
            => \A b \in ModelInputs :
                  (b["id"] = lastOp'.arg["id"] /\ Compatible(lastOp'.arg, b, ModelCols))
                      => save_model(models', b)
                            = save_model(save_model(models, b), lastOp'.arg)]_vars

\* A row of parts merged from two upserts: the last one gave the price and
\* no name, the name is from an earlier one.
C37_Witness ==
    /\ lastOp.op = "save_part"
    /\ IsNull(lastOp.arg["name"])
    /\ ~IsNull(lastOp.arg["price"])
    /\ \E j \in 1..Len(parts) :
          /\ parts[j]["manufacturer_id"] = lastOp.arg["manufacturer_id"]
          /\ ~IsNull(parts[j]["name"])
          /\ parts[j]["price"] = lastOp.arg["price"]

-----------------------------------------------------------------------------
(* The chain of parts pages of one model in model_processor.               *)

\* The parts of pages 1..k of a parts listing, in order.
RECURSIVE PartsUpTo(_)
PartsUpTo(k) == IF k = 0 THEN <<>> ELSE PartsUpTo(k - 1) \o PartsOf(PartDivs(k))

\* C38: a response for page k of a model's parts listing (not redirected,
\* k <= L) that shows more pages yields the request for page k + 1, at the model's parts URL with
\* start = k + 1, and no item; the response for the last page yields no
\* request and exactly one ModelProcessorItem for the model, with the parts
\* of pages 1..L.
C38_PartsPageChain ==
    [][(/\ lastOp'.op = "response"
        /\ lastOp'.callback = "parse_parts_page"
        /\ lastOp'.outcome = "ok"
        /\ ~lastOp'.url.moved
        /\ lastOp'.page_index <= lastOp'.last_page)
          => IF lastOp'.page_index < lastOp'.last_page
             THEN /\ lastOp'.items = <<>>
                  /\ { r.url : r \in lastOp'.requests }
                        = { [PartsUrl(lastOp'.model_url) EXCEPT
                                !.query = << lastOp'.page_index + 1 >>] }
                  /\ \A r \in lastOp'.requests :
                        /\ r.callback = "parse_parts_page"
                        /\ r.page_index = lastOp'.page_index + 1
             ELSE /\ lastOp'.requests = {}
                  /\ Len(lastOp'.items) = 1
                  /\ lastOp'.items[1].k = "ModelProcessorItem"
                  /\ lastOp'.items[1].url = lastOp'.model_url
                  /\ lastOp'.items[1].parts = PartsUpTo(lastOp'.last_page)]_vars

-----------------------------------------------------------------------------
(* RotateUserAgentAndProxyMiddleware: the pool of request identities.  An  *)
(* identity is the number of the agent generate_user_agents made for it;   *)
(* the agents are taken to differ in their User-Agent.  A request in       *)
(* flight is the identity process_request gave it.                          *)

\* generate_user_agents(30) in __init__
InitialAgents == 30

\* process_request refills when fewer agents than this are left ...
RefillBelow == 10

\* ... with generate_user_agents(10)
RefillCount == 10

\* Requests between process_request and process_response at one time.
MaxInFlight == 2

\* Calls of process_request in one behaviour of SpecMiddleware.
MaxRequests == 24

\* The pool is ListV of the sequence of its agents, or None.
IsList(x) == x.k = "list"

\* generate_user_agents(count), the agents numbered from `first`
generate_user_agents(first, count) == [n \in 1..count |-> first + n - 1]

\* list.extend: the list is extended in place and None is returned.
extend(list, more) == Null

\* The pool after the test of process_request: rebound to what extend
\* returns when fewer than RefillBelow agents are left.  len(None) raises.
Refilled(user_agents, made) ==
    IF ~IsList(user_agents) THEN [raised |-> TRUE, user_agents |-> user_agents]
    ELSE IF Len(user_agents.v) < RefillBelow
    THEN [raised |-> FALSE,
          user_agents |-> extend(user_agents,
                                 generate_user_agents(made + 1, RefillCount))]
    ELSE [raised |-> FALSE, user_agents |-> user_agents]

\* process_request with random.choice taking the agent at position `pick`:
\* random.choice(None) raises.
process_request(user_agents, made, pick) ==
    LET r == Refilled(user_agents, made)
    IN  IF r.raised \/ ~IsList(r.user_agents)
        THEN [raised |-> TRUE, user_agents |-> r.user_agents, header |-> Null]
        ELSE [raised |-> FALSE, user_agents |-> r.user_agents,
              header |-> IntV(r.user_agents.v[pick])]

\* process_response: a 403 or 429 removes the agents with the request's
\* User-Agent; iterating over None raises.
process_response(user_agents, blocked_user_agent, status) ==
    IF status \notin { 403, 429 } THEN [raised |-> FALSE, user_agents |-> user_agents]
    ELSE IF ~IsList(user_agents) THEN [raised |-> TRUE, user_agents |-> user_agents]
    ELSE [raised |-> FALSE,
          user_agents |-> ListV(SelectSeq(user_agents.v,
                                          LAMBDA agent : agent # blocked_user_agent))]

InitMiddleware ==
    /\ parts = <<>>
    /\ models = <<>>
    /\ part_replacements = <<>>
    /\ part_reviews = <<>>
    /\ part_review_stories = <<>>
    /\ part_qna = <<>>
    /\ scr = [w \in {"w1"} |->
                [user_agents |-> ListV(generate_user_agents(1, InitialAgents)),
                 made |-> InitialAgents, in_flight |-> <<>>]]
    /\ lastOp = [op |-> "init"]
    /\ nops = 0

\* The positions random.choice is followed at: the agents are alike, so
\* the last one stands for every agent no request in flight carries.
Picks(user_agents, in_flight) ==
    IF ~IsList(user_agents) \/ user_agents.v = <<>> THEN {1}
    ELSE { Len(user_agents.v) }
         \cup { n \in 1..Len(user_agents.v) :
                  \E m \in 1..Len(in_flight) : in_flight[m] = IntV(user_agents.v[n]) }

ProcessRequest(w, pick) ==
    LET r == process_request(scr[w].user_agents, scr[w].made, pick)
    IN  /\ Len(scr[w].in_flight) < MaxInFlight
        /\ scr' = [scr EXCEPT ![w].user_agents = r.user_agents,
                              ![w].in_flight = IF r.raised THEN @ ELSE Append(@, r.header)]
        /\ lastOp' = [op |-> "process_request", raised |-> r.raised, header |-> r.header]
        /\ nops' = nops + 1
        /\ UNCHANGED tables

ProcessResponse(w, n, status) ==
    LET r == process_response(scr[w].user_agents, scr[w].in_flight[n].v, status)
    IN  /\ scr' = [scr EXCEPT ![w].user_agents = r.user_agents,
                              ![w].in_flight =
                                  [m \in 1..(Len(@) - 1) |-> IF m < n THEN @[m] ELSE @[m + 1]]]
        /\ lastOp' = [op |-> "process_response", raised |-> r.raised, status |-> status]
        /\ UNCHANGED << tables, nops >>

NextMiddleware ==
    \/ \E w \in {"w1"} : \E pick \in Picks(scr[w].user_agents, scr[w].in_flight) :
           nops < MaxRequests /\ ProcessRequest(w, pick)
    \/ \E w \in {"w1"} : \E n \in 1..Len(scr[w].in_flight), status \in { 200, 403, 429 } :
           ProcessResponse(w, n, status)

SpecMiddleware == InitMiddleware /\ [][NextMiddleware]_vars

\* C39: after any calls of process_request and process_response the pool
\* is a list that is not empty, and process_request has given its request
\* a User-Agent without raising.
C39_PoolUsable ==
    /\ IsList(scr["w1"].user_agents)
    /\ scr["w1"].user_agents.v # <<>>
    /\ lastOp.op = "process_request" => (~lastOp.raised /\ ~IsNull(lastOp.header))

-----------------------------------------------------------------------------
(* MainAgent: run and the two summarizer threads its finally block starts. *)
(* A context is None or the text a summarizer wrote: Context(by, rag) is   *)
(* the summary of run `by`, with rag set once update_tool_context has      *)
(* appended a message of the RAG agent to it.  A thread is the run that    *)
(* started it, what it updates, and where it is.                           *)

\* Calls of MainAgent.run in one behaviour of SpecAgent.
MaxTurns == 2

Context(by, rag) == [k |-> "context", by |-> by, rag |-> rag]

SummarizerThread(run, kind, nested, had_rag) ==
    [run |-> run, kind |-> kind, nested |-> nested, had_rag |-> had_rag,
     pc |-> IF kind = "tool" THEN "scan" ELSE "invoke"]

\* The threads one finally block starts.
Summarizers(run, nested, had_rag) ==
    { SummarizerThread(run, "tool", nested, had_rag),
      SummarizerThread(run, "conv", nested, had_rag) }

InitAgent ==
    /\ parts = <<>>
    /\ models = <<>>
    /\ part_replacements = <<>>
    /\ part_reviews = <<>>
    /\ part_review_stories = <<>>
    /\ part_qna = <<>>
    /\ scr = [w \in {"w1"} |->
                [pc |-> "idle", run |-> 0, tool_context |-> Null,
                 conversation_context |-> Null, had_rag |-> FALSE, threads |-> {}]]
    /\ lastOp = [op |-> "init"]
    /\ nops = 0

\* run(user_input) is entered: the conversation is built from tool_context
\* and conversation_context as they are now.
RunStart(w) ==
    /\ scr[w].pc = "idle"
    /\ scr' = [scr EXCEPT ![w].pc = "running", ![w].run = @ + 1,
                          ![w].had_rag = ~IsNull(scr[w].tool_context)]
    /\ lastOp' = [op |-> "run", run |-> scr[w].run + 1,
                  tool_read |-> scr[w].tool_context,
                  conv_read |-> scr[w].conversation_context]
    /\ nops' = nops + 1
    /\ UNCHANGED tables

\* run returns: its finally block starts the two threads and does not wait
\* for them.  When a tool failed, run has returned self.run(user_input,
\* retry=True), whose own finally block has started two threads before.
RunReturn(w, retried) ==
    /\ scr[w].pc = "running"
    /\ scr' = [scr EXCEPT
          ![w].pc = "idle",
          ![w].threads = @ \cup Summarizers(scr[w].run, FALSE, scr[w].had_rag)
                           \cup (IF retried
                                 THEN Summarizers(scr[w].run, TRUE, scr[w].had_rag)
                                 ELSE {})]
    /\ lastOp' = [op |-> "return", run |-> scr[w].run, retried |-> retried]
    /\ UNCHANGED << tables, nops >>

\* update_tool_context up to llm.invoke: the loop over the conversation
\* does self.conversation_context += msg.content for the message of the
\* RAG agent; with conversation_context None the += raises and the thread
\* ends.
ToolScan(w, t) ==
    /\ t \in scr[w].threads
    /\ t.pc = "scan"
    /\ IF t.had_rag /\ IsNull(scr[w].conversation_context)
       THEN /\ scr' = [scr EXCEPT ![w].threads = @ \ { t }]
            /\ lastOp' = [op |-> "scan", run |-> t.run, raised |-> TRUE]
       ELSE /\ scr' = [scr EXCEPT
                  ![w].threads = (@ \ { t }) \cup { [t EXCEPT !.pc = "invoke"] },
                  ![w].conversation_context =
                      IF t.had_rag THEN [@ EXCEPT !.rag = TRUE] ELSE @]
            /\ lastOp' = [op |-> "scan", run |-> t.run, raised |-> FALSE]
    /\ UNCHANGED << tables, nops >>

\* llm.invoke has returned in a summarizer thread: the thread assigns its
\* summary to the context it updates and ends.
Summarized(w, t) ==
    /\ t \in scr[w].threads
    /\ t.pc = "invoke"
    /\ scr' = [scr EXCEPT
          ![w].threads = @ \ { t },
          ![w].tool_context = IF t.kind = "tool" THEN Context(t.run, FALSE) ELSE @,
          ![w].conversation_context = IF t.kind = "conv" THEN Context(t.run, FALSE) ELSE @]
    /\ lastOp' = [op |-> "summarized", run |-> t.run, kind |-> t.kind,
                  over |-> IF t.kind = "tool" THEN scr[w].tool_context
                           ELSE scr[w].conversation_context]
    /\ UNCHANGED << tables, nops >>

NextAgent ==
    \/ \E w \in {"w1"} : nops < MaxTurns /\ RunStart(w)
    \/ \E w \in {"w1"}, retried \in BOOLEAN : RunReturn(w, retried)
    \/ \E w \in {"w1"} : \E t \in scr[w].threads : ToolScan(w, t)
    \/ \E w \in {"w1"} : \E t \in scr[w].threads : Summarized(w, t)

SpecAgent == InitAgent /\ [][NextAgent]_vars

\* C40: a run that follows a run that has returned builds its conversation
\* from the tool_context and the conversation_context the previous run's
\* summarizers wrote, and no summarizer overwrites a context written for a
\* later run.
C40_ContextNotStale ==
    [][/\ (lastOp'.op = "run" /\ lastOp'.run > 1)
            => /\ ~IsNull(lastOp'.tool_read)
               /\ lastOp'.tool_read.by = lastOp'.run - 1
               /\ ~IsNull(lastOp'.conv_read)
               /\ lastOp'.conv_read.by = lastOp'.run - 1
       /\ (lastOp'.op = "summarized" /\ ~IsNull(lastOp'.over))
            => lastOp'.over.by <= lastOp'.run]_vars

=============================================================================
